---------------------------- MODULE Spec2Model ----------------------------
(***************************************************************************)
(* Chat orchestration of the Bedrock/MCP backends.                         *)
(*                                                                         *)
(* The repository ships three variants of the POST /chat handler           *)
(* (backend/main.py, backend/main_optimized.py, backend/main_q_style.py).  *)
(* One process runs one variant; the variable "variant" fixes which.       *)
(* main_q_style.py additionally runs the SecurityManager of                *)
(* backend/security_enhancements.py in front of the handler.               *)
(*                                                                         *)
(* Text is modelled as a sequence of one-character strings, so that        *)
(* str.lower() and the substring test "kw in message" are computed.        *)
(***************************************************************************)
EXTENDS Integers, Sequences, FiniteSets, TLC

----------------------------------------------------------------------------
(* Bounds of the model *)

\* Requests one q_style process validates in a behaviour (caps the audit log).
MaxRequests == 12
\* Content items in one tool-service answer.
MaxItems == 2
\* Clock advances observed by the security manager in a behaviour.
MaxTicks == 1
\* Seconds by which the clock advances between two requests.
TickSeconds == 61

----------------------------------------------------------------------------
(* Program constants *)

\* RateLimiter.__init__ defaults: max_requests=10, window_minutes=1 (* 60).
max_requests == 10
window_seconds == 60
\* InputValidator.max_message_length
max_message_length == 10000
\* main.py: len(final_response.strip()) > 100
UsefulLength == 100
\* main.py: len(text.split('\n')) < 10
MetadataLines == 10

----------------------------------------------------------------------------
(* Text helpers: str.lower(), "x in s", str.strip() *)

UpperCase == <<"A","B","C","D","E","F","G","H","I","J","K","L","M",
               "N","O","P","Q","R","S","T","U","V","W","X","Y","Z">>
LowerCase == <<"a","b","c","d","e","f","g","h","i","j","k","l","m",
               "n","o","p","q","r","s","t","u","v","w","x","y","z">>

LowerChar(c) ==
    IF \E i \in 1..Len(UpperCase) : UpperCase[i] = c
    THEN LowerCase[CHOOSE i \in 1..Len(UpperCase) : UpperCase[i] = c]
    ELSE c

\* message.lower()
Lower(s) == [i \in 1..Len(s) |-> LowerChar(s[i])]

\* lit occurs in s starting at position i
At(lit, s, i) ==
    /\ i >= 1
    /\ i + Len(lit) - 1 <= Len(s)
    /\ \A k \in 1..Len(lit) : s[i + k - 1] = lit[k]

\* Python's "kw in s"
Contains(kw, s) == \E i \in 1..(Len(s) + 1) : At(kw, s, i)

\* index of the first entry of the list that occurs in s, 0 when none does:
\* "for trigger in triggers: if trigger in message_lower: return ..."
FirstTrigger(triggers, s) ==
    IF \E i \in 1..Len(triggers) : Contains(triggers[i], s)
    THEN CHOOSE i \in 1..Len(triggers) :
            /\ Contains(triggers[i], s)
            /\ \A j \in 1..(i - 1) : ~Contains(triggers[j], s)
    ELSE 0

\* sum(1 for keyword in keywords if keyword in s)
CountMatches(keywords, s) ==
    Cardinality({i \in 1..Len(keywords) : Contains(keywords[i], s)})

----------------------------------------------------------------------------
(* backend/main.py: keyword classification *)

main_mcp_triggers ==
    << <<"d","i","a","g","r","a","m","a">>,
       <<"d","i","a","g","r","a","m">>,
       <<"a","r","q","u","i","t","e","c","t","u","r","a"," ","v","i","s","u","a","l">>,
       <<"e","s","q","u","e","m","a">>,
       <<"b","l","u","e","p","r","i","n","t">>,
       <<"c","o","s","t","o","s"," ","d","e","t","a","l","l","a","d","o","s">>,
       <<"c","o","s","t","s">>,
       <<"p","r","i","c","i","n","g">>,
       <<"p","r","e","s","u","p","u","e","s","t","o">>,
       <<"b","u","d","g","e","t">>,
       <<"p","r","o","y","e","c","t","o"," ","c","o","m","p","l","e","t","o">>,
       <<"i","m","p","l","e","m","e","n","t","a","c","i","ó","n">>,
       <<"e","n","t","r","e","g","a","b","l","e","s">>,
       <<"d","e","l","i","v","e","r","a","b","l","e","s">>,
       <<"d","o","c","u","m","e","n","t","a","c","i","ó","n">>,
       <<"p","l","a","n"," ","d","e"," ","m","i","g","r","a","c","i","ó","n">>,
       <<"m","i","g","r","a","t","i","o","n"," ","p","l","a","n">> >>

main_bedrock_triggers ==
    << <<"h","o","l","a">>,
       <<"h","e","l","l","o">>,
       <<"h","i">>,
       <<"q","u","é"," ","t","a","l">>,
       <<"c","o","m","o"," ","e","s","t","a","s">>,
       <<"g","r","a","c","i","a","s">>,
       <<"t","h","a","n","k","s">>,
       <<"o","k">>,
       <<"e","n","t","i","e","n","d","o">>,
       <<"p","e","r","f","e","c","t","o">>,
       <<"e","x","p","l","i","c","a">>,
       <<"e","x","p","l","a","i","n">>,
       <<"q","u","é"," ","e","s">>,
       <<"w","h","a","t"," ","i","s">>,
       <<"c","ó","m","o"," ","f","u","n","c","i","o","n","a">> >>

main_deliverable_triggers ==
    << <<"d","i","a","g","r","a","m","a">>,
       <<"d","i","a","g","r","a","m">>,
       <<"e","s","q","u","e","m","a">>,
       <<"b","l","u","e","p","r","i","n","t">>,
       <<"v","i","s","u","a","l">>,
       <<"c","o","s","t","o","s"," ","d","e","t","a","l","l","a","d","o","s">>,
       <<"d","e","t","a","i","l","e","d"," ","c","o","s","t","s">>,
       <<"p","r","e","s","u","p","u","e","s","t","o"," ","c","o","m","p","l","e","t","o">>,
       <<"p","r","o","y","e","c","t","o"," ","c","o","m","p","l","e","t","o">>,
       <<"f","u","l","l"," ","p","r","o","j","e","c","t">>,
       <<"i","m","p","l","e","m","e","n","t","a","c","i","ó","n"," ","c","o","m","p","l","e","t","a">>,
       <<"e","n","t","r","e","g","a","b","l","e","s">>,
       <<"d","e","l","i","v","e","r","a","b","l","e","s">>,
       <<"d","o","c","u","m","e","n","t","o","s">>,
       <<"d","o","c","u","m","e","n","t","s">> >>

\* should_use_mcp with the two loops swapped: the MCP triggers are tried first
main_should_use_mcp_swapped(message) ==
    LET m == Lower(message)
        b == FirstTrigger(main_bedrock_triggers, m)
        t == FirstTrigger(main_mcp_triggers, m)
    IN  IF t # 0
        THEN [use |-> TRUE, reason |-> <<"Entregables solicitados", main_mcp_triggers[t]>>]
        ELSE IF b # 0
        THEN [use |-> FALSE, reason |-> <<"Consulta conversacional", main_bedrock_triggers[b]>>]
        ELSE [use |-> FALSE, reason |-> <<"Consulta técnica - Bedrock directo", <<>> >>]

\* should_use_mcp(message) -> (use, reason); reason = <<template, trigger>>
main_should_use_mcp(message) ==
    LET m == Lower(message)
        b == FirstTrigger(main_bedrock_triggers, m)
        t == FirstTrigger(main_mcp_triggers, m)
    IN  IF b # 0
        THEN [use |-> FALSE, reason |-> <<"Consulta conversacional", main_bedrock_triggers[b]>>]
        ELSE IF t # 0
        THEN [use |-> TRUE, reason |-> <<"Entregables solicitados", main_mcp_triggers[t]>>]
        ELSE [use |-> FALSE, reason |-> <<"Consulta técnica - Bedrock directo", <<>> >>]

\* should_generate_deliverables(message) -> (generate, reason)
main_should_generate_deliverables(message) ==
    LET m == Lower(message)
        t == FirstTrigger(main_deliverable_triggers, m)
    IN  IF t # 0
        THEN [use |-> TRUE, reason |-> <<"Entregables específicos", main_deliverable_triggers[t]>>]
        ELSE [use |-> FALSE, reason |-> <<"Solo consulta - sin entregables", <<>> >>]

----------------------------------------------------------------------------
(* backend/main_optimized.py: keyword classification *)

opt_mcp_triggers ==
    << <<"d","i","a","g","r","a","m","a">>,
       <<"d","i","a","g","r","a","m">>,
       <<"a","r","q","u","i","t","e","c","t","u","r","a">>,
       <<"a","r","c","h","i","t","e","c","t","u","r","e">>,
       <<"m","i","g","r","a","c","i","ó","n">>,
       <<"m","i","g","r","a","t","i","o","n">>,
       <<"c","o","s","t","o","s">>,
       <<"c","o","s","t","s">>,
       <<"p","r","i","c","i","n","g">>,
       <<"d","i","s","e","ñ","o">>,
       <<"d","e","s","i","g","n">>,
       <<"i","n","f","r","a","e","s","t","r","u","c","t","u","r","a">>,
       <<"i","n","f","r","a","s","t","r","u","c","t","u","r","e">>,
       <<"p","r","o","y","e","c","t","o">>,
       <<"p","r","o","j","e","c","t">>,
       <<"i","m","p","l","e","m","e","n","t","a","r">>,
       <<"i","m","p","l","e","m","e","n","t">> >>

opt_bedrock_triggers ==
    << <<"h","o","l","a">>,
       <<"h","e","l","l","o">>,
       <<"h","i">>,
       <<"q","u","é"," ","t","a","l">>,
       <<"c","o","m","o"," ","e","s","t","a","s">>,
       <<"g","r","a","c","i","a","s">>,
       <<"t","h","a","n","k","s">>,
       <<"o","k">>,
       <<"e","n","t","i","e","n","d","o">>,
       <<"p","e","r","f","e","c","t","o">> >>

opt_deliverable_triggers ==
    << <<"d","i","a","g","r","a","m","a">>,
       <<"d","i","a","g","r","a","m">>,
       <<"e","s","q","u","e","m","a">>,
       <<"b","l","u","e","p","r","i","n","t">>,
       <<"c","o","s","t","o","s">>,
       <<"c","o","s","t","s">>,
       <<"p","r","i","c","i","n","g">>,
       <<"p","r","e","s","u","p","u","e","s","t","o">>,
       <<"b","u","d","g","e","t">>,
       <<"i","m","p","l","e","m","e","n","t","a","r">>,
       <<"i","m","p","l","e","m","e","n","t">>,
       <<"c","r","e","a","r">>,
       <<"c","r","e","a","t","e">>,
       <<"p","r","o","y","e","c","t","o"," ","c","o","m","p","l","e","t","o">>,
       <<"f","u","l","l"," ","p","r","o","j","e","c","t">>,
       <<"e","n","t","r","e","g","a","b","l","e","s">>,
       <<"d","e","l","i","v","e","r","a","b","l","e","s">> >>

opt_should_use_mcp(message) ==
    LET m == Lower(message)
        b == FirstTrigger(opt_bedrock_triggers, m)
        t == FirstTrigger(opt_mcp_triggers, m)
    IN  IF b # 0
        THEN [use |-> FALSE, reason |-> <<"Saludo/confirmación detectado", opt_bedrock_triggers[b]>>]
        ELSE IF t # 0
        THEN [use |-> TRUE, reason |-> <<"Caso complejo detectado", opt_mcp_triggers[t]>>]
        ELSE [use |-> FALSE, reason |-> <<"Consulta general - usando Bedrock directo", <<>> >>]

opt_should_generate_deliverables(message) ==
    LET m == Lower(message)
        t == FirstTrigger(opt_deliverable_triggers, m)
    IN  IF t # 0
        THEN [use |-> TRUE, reason |-> <<"Solicitud de entregables detectada", opt_deliverable_triggers[t]>>]
        ELSE [use |-> FALSE, reason |-> <<"No se requieren entregables", <<>> >>]

----------------------------------------------------------------------------
(* backend/main_q_style.py: intent analysis by match counts *)

q_deliverable_keywords ==
    << <<"d","i","a","g","r","a","m","a">>,
       <<"d","i","a","g","r","a","m">>,
       <<"a","r","q","u","i","t","e","c","t","u","r","a">>,
       <<"a","r","c","h","i","t","e","c","t","u","r","e">>,
       <<"c","o","s","t","o">>,
       <<"c","o","s","t">>,
       <<"p","r","e","c","i","o">>,
       <<"p","r","i","c","i","n","g">>,
       <<"p","r","e","s","u","p","u","e","s","t","o">>,
       <<"b","u","d","g","e","t">>,
       <<"d","o","c","u","m","e","n","t","a","c","i","ó","n">>,
       <<"d","o","c","u","m","e","n","t","a","t","i","o","n">>,
       <<"d","o","c">>,
       <<"g","e","n","e","r","a","r">>,
       <<"g","e","n","e","r","a","t","e">>,
       <<"c","r","e","a","r">>,
       <<"c","r","e","a","t","e">>,
       <<"d","i","s","e","ñ","a","r">>,
       <<"d","e","s","i","g","n">>,
       <<"m","i","g","r","a","c","i","ó","n">>,
       <<"m","i","g","r","a","t","i","o","n">>,
       <<"i","m","p","l","e","m","e","n","t","a","r">>,
       <<"i","m","p","l","e","m","e","n","t">> >>

q_simple_keywords ==
    << <<"q","u","é"," ","e","s">>,
       <<"w","h","a","t"," ","i","s">>,
       <<"c","ó","m","o">>,
       <<"h","o","w">>,
       <<"p","o","r"," ","q","u","é">>,
       <<"w","h","y">>,
       <<"e","x","p","l","i","c","a">>,
       <<"e","x","p","l","a","i","n">>,
       <<"d","i","f","e","r","e","n","c","i","a">>,
       <<"d","i","f","f","e","r","e","n","c","e">>,
       <<"v","e","n","t","a","j","a","s">>,
       <<"a","d","v","a","n","t","a","g","e","s">>,
       <<"d","e","s","v","e","n","t","a","j","a","s">>,
       <<"d","i","s","a","d","v","a","n","t","a","g","e","s">> >>

\* analyze_intent(message); the confidence value is not modelled
analyze_intent(message) ==
    LET m == Lower(message)
        d == CountMatches(q_deliverable_keywords, m)
        s == CountMatches(q_simple_keywords, m)
    IN  [ intent |-> IF d > s /\ d > 0 THEN "deliverable_request"
                     ELSE IF s > 0 THEN "information_request"
                     ELSE "general_conversation",
          deliverable_matches |-> d,
          simple_matches |-> s ]
----------------------------------------------------------------------------
(* State *)

VARIABLES
    variant,           \* which backend module this process runs
    pc,                \* position of the request in chat_endpoint
    client_ip,         \* http_request.client.host
    request,           \* ChatRequest: message, use_mcp, generate_deliverables
    security_result,   \* result of security_manager.validate_request
    processing_steps,  \* the request's list of ProcessingStep / ProcessStep
    use_mcp,           \* local use_mcp of chat_endpoint
    generate_deliverables, \* local generate_deliverables (main, main_optimized)
    tool_response,     \* what the tool service answered (environment)
    mcp_result,        \* what call_mcp_tool / call_mcp_tool_async returned
    bedrock_result,    \* what the Bedrock call returned or raised
    reply,             \* what the caller receives: JSON body or HTTP error
    toolCalls,         \* POSTs sent to the tool service for this request
    modelCalls,        \* Bedrock invocations made for this request
    now,               \* time.time() as read by the security manager
    requests,          \* RateLimiter.requests: client -> deque of timestamps
    request_patterns,  \* AnomalyDetector.request_patterns: entries per client
    audit_log          \* AuditLogger: entries appended to the log file

\* State of the parts of the repository that POST /chat does not reach
VARIABLES
    limiter,           \* which RateLimiter class the process holds
    admitted,          \* history: client -> timestamps of its admitted requests
    rl_verdict,        \* the last verdict a rate limiter returned, and for whom
    rl_calls           \* calls made to the rate limiter in this behaviour

rateVars == <<limiter, admitted, rl_verdict, rl_calls>>

VARIABLES
    val_validator,     \* which InputValidator class validates
    val_message,       \* the message handed to the validator
    val_result         \* what the validator returned for it

valVars == <<val_validator, val_message, val_result>>

VARIABLES
    use_presigned,     \* config.USE_PRESIGNED_URLS
    bucket,            \* the S3 bucket: key -> body of the object
    uploads,           \* history: the upload calls made, with what they returned
    uuids,             \* uuid.uuid4() values drawn so far
    art                \* the request that is processing generated files

storeVars == <<use_presigned, bucket, uploads, uuids, art>>

VARIABLES
    prompt_app,            \* the module that serves the prompt endpoints
    current_system_prompt, \* the module-level system prompt
    prompt_log,            \* history: the writes and resets made, in order
    got,                   \* the last answer of GET /system-prompt
    asking                 \* a chat request on its way to the model

promptVars == <<prompt_app, current_system_prompt, prompt_log, got, asking>>

VARIABLES
    tool_answer,       \* the HTTP answer of the tool service: status and content
    called,            \* what mcp_client.call_mcp_tool made of it
    files_found        \* what FileHandler._extract_file_references found in it

answerVars == <<tool_answer, called, files_found>>

VARIABLES
    breaker,           \* CircuitBreaker: state, failure_count, last_failure_time
    in_flight,         \* the calls that are awaiting the wrapped function
    cb_calls,          \* calls of CircuitBreaker.call made so far
    cb_last,           \* history: the last thing that happened to a call
    cb_log,            \* history: outcomes of the wrapped function since the
                       \* breaker was constructed or last closed again
    func_calls         \* invocations of the wrapped function

breakerVars == <<breaker, in_flight, cb_calls, cb_last, cb_log, func_calls>>

VARIABLES
    san_pc,            \* position of a chat request of main_q_style.py
    san_request,       \* the ChatRequest as the caller sent it
    san_security,      \* what security_manager.validate_request returned
    analyzed,          \* the message handed to analyze_intent
    sent               \* the arguments of call_bedrock_with_system_prompt

sanVars == <<san_pc, san_request, san_security, analyzed, sent>>

VARIABLES
    tool_use           \* a POST /bedrock/tool-use: its body, what the tool
                       \* service will answer, and what handle_tool_use made of it

VARIABLES
    resolving          \* FileHandler.process_mcp_response at work on the
                       \* candidates it found: where it is and what it tried

VARIABLES
    detecting          \* a text handed to FileProcessor.detect_file_type, and
                       \* the type returned for it

auxVars == <<rateVars, valVars, storeVars, promptVars, answerVars, breakerVars, sanVars,
             tool_use, resolving, detecting>>

\* DEFAULT_SYSTEM_PROMPT of main_q_style.py, AWS_ARCHITECT_SYSTEM_PROMPT of
\* main.py as the module defines it
DEFAULT_SYSTEM_PROMPT == "Eres un Arquitecto de Soluciones AWS experto"

\* a step of one part leaves the other parts alone
Frame(part) ==
    /\ part # "rate" => UNCHANGED rateVars
    /\ part # "validation" => UNCHANGED valVars
    /\ part # "store" => UNCHANGED storeVars
    /\ part # "prompt" => UNCHANGED promptVars
    /\ part # "answer" => UNCHANGED answerVars
    /\ part # "breaker" => UNCHANGED breakerVars
    /\ part # "sanitize" => UNCHANGED sanVars
    /\ part # "tool_use" => UNCHANGED tool_use
    /\ part # "resolve" => UNCHANGED resolving
    /\ part # "detect" => UNCHANGED detecting

reqVars == <<client_ip, request, security_result, processing_steps, use_mcp,
             generate_deliverables, tool_response, mcp_result, bedrock_result,
             reply, toolCalls, modelCalls>>
secVars == <<now, requests, request_patterns, audit_log>>
vars == <<variant, pc, reqVars, secVars, auxVars>>

Variants == {"main", "main_optimized", "main_q_style"}
Clients == {"10.0.0.1"}
\* the client addresses the rate limiters are exercised with
RateClients == {"10.0.0.1", "10.0.0.2"}
\* the two classes named RateLimiter
Limiters == {"security_enhancements", "improvements"}

\* Messages the callers send (the empty string included)
Messages ==
    {
      <<>>,   \* ""
      <<"H","o","l","a",","," ","n","e","c","e","s","i","t","o"," ","u","n"," ","d","i","a","g","r","a","m","a">>,   \* "Hola, necesito un diagrama"
      <<"e","x","p","l","i","c","a"," ","e","l"," ","d","i","a","g","r","a","m","a">>,   \* "explica el diagrama"
      <<"d","i","a","g","r","a","m","a">>,   \* "diagrama"
      <<"c","o","s","t","s">>,   \* "costs"
      <<"e","x","p","l","i","c","a"," ","c","o","s","t","s">>,   \* "explica costs"
      <<"j","a","v","a","s","c","r","i","p","t",":","a","l","e","r","t">>,   \* "javascript:alert"
      <<"a","w","s">>    \* "aws"
    }

\* ChatRequest: the fields the routing reads. use_mcp defaults to True and
\* generate_deliverables to False; a caller may send either value.
ChatRequests ==
    [message : Messages, use_mcp : BOOLEAN, generate_deliverables : BOOLEAN]

None == [none |-> TRUE]

----------------------------------------------------------------------------
(* Answers of the external services *)

\* A content item {"type": "text", "text": ...} of a tool answer, by what the
\* handlers read of its text: its length, whether it holds the acknowledgement
\* "prompt_understanding ejecutado exitosamente" and its number of lines.
\* The texts carry no leading or trailing whitespace.
ItemKinds ==
    { [len |-> 43,  ack |-> TRUE,  lines |-> 1],    \* the bare acknowledgement
      [len |-> 100, ack |-> FALSE, lines |-> 1],
      [len |-> 101, ack |-> FALSE, lines |-> 1],
      [len |-> 150, ack |-> TRUE,  lines |-> 10] }  \* acknowledgement in a report

ItemSeqs == UNION {[1..n -> ItemKinds] : n \in 0..MaxItems}

\* An answer of the tool service: a non-200 status, no answer at all (connection
\* error or timeout), or a 200 whose JSON has no content, a content that is
\* no list of objects, or a list of text items.
ToolResponses ==
    { [outcome |-> "http_error", content |-> "absent", items |-> <<>>],
      [outcome |-> "exception",  content |-> "absent", items |-> <<>>],
      [outcome |-> "ok", content |-> "absent",    items |-> <<>>],
      [outcome |-> "ok", content |-> "malformed", items |-> <<>>] }
    \cup { [outcome |-> "ok", content |-> "list", items |-> s] : s \in ItemSeqs }

\* Bedrock returns a completion or raises (service error, timeout, model id
\* the handler does not support).
BedrockOutcomes == {"ok", "error"}

RECURSIVE SumLen(_)
SumLen(items) ==
    IF items = <<>> THEN 0 ELSE Head(items).len + SumLen(Tail(items))

----------------------------------------------------------------------------
(* backend/security_enhancements.py *)

WhiteSpace == {" ", "\t", "\n", "\r", "\f"}

\* \w of the re module for the characters the messages use
WordChars ==
    {LowerCase[i] : i \in 1..Len(LowerCase)} \cup {UpperCase[i] : i \in 1..Len(UpperCase)}
    \cup {"0","1","2","3","4","5","6","7","8","9","_","á","é","í","ó","ú","ñ"}

\* re.search(a \s{minws,} b, s)
LitWsLit(a, minws, b, s) ==
    \E i \in 1..Len(s) :
        /\ At(a, s, i)
        /\ \E n \in minws..Len(s) :
            /\ i + Len(a) + n - 1 <= Len(s)
            /\ \A x \in (i + Len(a))..(i + Len(a) + n - 1) : s[x] \in WhiteSpace
            /\ At(b, s, i + Len(a) + n)

\* re.search(r'<script[^>]*>.*?</script>', s)
ScriptTag(s) ==
    \E i \in 1..Len(s) :
        /\ At(<<"<","s","c","r","i","p","t">>, s, i)
        /\ \E j \in (i + 7)..Len(s) :
            /\ s[j] = ">"
            /\ \A x \in (i + 7)..(j - 1) : s[x] # ">"
            /\ \E k \in (j + 1)..Len(s) :
                /\ At(<<"<","/","s","c","r","i","p","t",">">>, s, k)
                /\ \A x \in (j + 1)..(k - 1) : s[x] # "\n"

\* re.search(r'on\w+\s*=', s)
EventHandler(s) ==
    \E i \in 1..Len(s) :
        /\ At(<<"o","n">>, s, i)
        /\ \E w \in 1..Len(s) :
            /\ i + 1 + w <= Len(s)
            /\ \A x \in (i + 2)..(i + 1 + w) : s[x] \in WordChars
            /\ \E n \in 0..Len(s) :
                /\ i + 2 + w + n <= Len(s)
                /\ \A x \in (i + 2 + w)..(i + 1 + w + n) : s[x] \in WhiteSpace
                /\ s[i + 2 + w + n] = "="

\* any(re.search(pattern, message, re.IGNORECASE) for pattern in dangerous_patterns)
DangerousPattern(message) ==
    LET s == Lower(message)
    IN  \/ ScriptTag(s)
        \/ Contains(<<"j","a","v","a","s","c","r","i","p","t",":">>, s)
        \/ EventHandler(s)
        \/ LitWsLit(<<"e","v","a","l">>, 0, <<"(">>, s)
        \/ LitWsLit(<<"e","x","e","c">>, 0, <<"(">>, s)
        \/ LitWsLit(<<"i","m","p","o","r","t">>, 1, <<"o","s">>, s)
        \/ Contains(<<"_","_","i","m","p","o","r","t","_","_">>, s)

\* InputValidator.validate_input: the first failing check returns
validate_input(request_data) ==
    LET message == request_data.message
    IN  IF message = <<>>
        THEN [valid |-> FALSE, errors |-> <<"Message is required and must be string">>]
        ELSE IF Len(message) > max_message_length
        THEN [valid |-> FALSE, errors |-> <<"Message too long (max 10000 chars)">>]
        ELSE IF DangerousPattern(message)
        THEN [valid |-> FALSE, errors |-> <<"Potentially dangerous content detected">>]
        ELSE [valid |-> TRUE, errors |-> <<>>]

\* "while client_requests and client_requests[0] < now - window_seconds: popleft()":
\* the leading entries older than the window are dropped
DropExpired(client_requests, t) ==
    LET expired == {i \in 1..Len(client_requests) :
                        \A j \in 1..i : client_requests[j] < t - window_seconds}
    IN  SubSeq(client_requests, Cardinality(expired) + 1, Len(client_requests))

\* RateLimiter.allow_request: the verdict and the client's deque afterwards
allow_request(client_requests, t) ==
    LET kept == DropExpired(client_requests, t)
    IN  IF Len(kept) >= max_requests
        THEN [allowed |-> FALSE, deque |-> kept]
        ELSE [allowed |-> TRUE, deque |-> Append(kept, t)]

\* "validation_result = self.input_validator.validate_input(request_data)",
\* tabulated over the requests that arrive (@@ makes TLC keep the table as an
\* explicit function in place of evaluating validate_input at every lookup)
input_validation == [r \in ChatRequests |-> validate_input(r)] @@ <<>>

\* SecurityManager.validate_request, steps 1 and 2: the result the handler reads.
\* The anomaly detector only adds warnings, which the handler only logs.
validate_request(request_data, allowed) ==
    LET v == input_validation[request_data]
        e1 == IF allowed THEN <<>> ELSE <<"Rate limit exceeded">>
    IN  [valid |-> allowed /\ v.valid, errors |-> e1 \o v.errors]

\* the test looking for a text no error of validate_request holds
MentionsRateLimit_never(errors) ==
    \E i \in 1..Len(errors) : errors[i] = "Too many requests"

\* '"Rate limit" in str(security_result["errors"])': of the error texts
\* validate_request can produce only "Rate limit exceeded" holds the words.
MentionsRateLimit(errors) ==
    \E i \in 1..Len(errors) : errors[i] = "Rate limit exceeded"

----------------------------------------------------------------------------
(* Start of the process, arrival of requests, passage of time *)

NoReply == [status |-> 0]

\* the parts a specification does not reach, at rest: the rate limiter
\* main_q_style.py imports before any call, no message handed to an
\* InputValidator on its own, nothing uploaded and no request processing
\* files, the system prompt as the module sets it, no answer of the tool
\* service at hand, a circuit breaker as constructed (last_failure_time None
\* is written -1), no chat request whose values are followed,
\* no POST /bedrock/tool-use, no candidates being resolved,
\* no text whose type is being detected
AuxIdle(part) ==
    /\ part # "rate" =>
          /\ limiter = "security_enhancements"
          /\ admitted = [c \in RateClients |-> <<>>]
          /\ rl_verdict = None
          /\ rl_calls = 0
    /\ part # "validation" =>
          /\ val_validator = "security_enhancements"
          /\ val_message = <<>>
          /\ val_result = None
    /\ part # "store" =>
          /\ use_presigned = TRUE
          /\ bucket = <<>>
          /\ uploads = <<>>
          /\ uuids = 0
          /\ art = [pc |-> "idle"]
    /\ part # "prompt" =>
          /\ prompt_app = "main_q_style"
          /\ current_system_prompt = DEFAULT_SYSTEM_PROMPT
          /\ prompt_log = <<>>
          /\ got = None
          /\ asking = [pc |-> "idle"]
    /\ part # "answer" =>
          /\ tool_answer = None
          /\ called = None
          /\ files_found = None
    /\ part # "breaker" =>
          /\ breaker = [state |-> "CLOSED", failure_count |-> 0, last_failure_time |-> -1]
          /\ in_flight = {}
          /\ cb_calls = 0
          /\ cb_last = None
          /\ cb_log = <<>>
          /\ func_calls = 0
    /\ part # "sanitize" =>
          /\ san_pc = "idle"
          /\ san_request = None
          /\ san_security = None
          /\ analyzed = None
          /\ sent = None
    /\ part # "tool_use" => tool_use = None
    /\ part # "resolve" => resolving = None
    /\ part # "detect" => detecting = None

Init ==
    /\ AuxIdle("chat")
    /\ variant \in Variants
    /\ pc = "idle"
    /\ client_ip = ""
    /\ request = None
    /\ security_result = None
    /\ processing_steps = <<>>
    /\ use_mcp = FALSE
    /\ generate_deliverables = FALSE
    /\ tool_response = None
    /\ mcp_result = None
    /\ bedrock_result = None
    /\ reply = NoReply
    /\ toolCalls = 0
    /\ modelCalls = 0
    /\ now = 0
    /\ requests = [c \in Clients |-> <<>>]
    /\ request_patterns = [c \in Clients |-> 0]
    /\ audit_log = 0

Terminal == {"responded", "failed"}

\* A POST /chat arrives at the idle process: a fresh call of chat_endpoint.
NewRequest ==
    /\ pc = "idle"
    /\ variant = "main_q_style" => audit_log < MaxRequests
    /\ \E r \in ChatRequests, c \in Clients :
        /\ request' = r
        /\ client_ip' = c
    /\ pc' = "received"
    /\ UNCHANGED <<auxVars, variant, secVars, security_result, processing_steps, use_mcp,
                   generate_deliverables, tool_response, mcp_result, bedrock_result,
                   reply, toolCalls, modelCalls>>

\* The reply is sent and the call of chat_endpoint ends: its locals are gone.
EndRequest ==
    /\ pc \in Terminal
    /\ pc' = "idle"
    /\ client_ip' = ""
    /\ request' = None
    /\ security_result' = None
    /\ processing_steps' = <<>>
    /\ use_mcp' = FALSE
    /\ generate_deliverables' = FALSE
    /\ tool_response' = None
    /\ mcp_result' = None
    /\ bedrock_result' = None
    /\ reply' = NoReply
    /\ toolCalls' = 0
    /\ modelCalls' = 0
    /\ UNCHANGED <<auxVars, variant, secVars>>

\* The clock read by the security manager advances between requests.
Tick ==
    /\ variant = "main_q_style"
    /\ pc = "idle"
    /\ now < MaxTicks * TickSeconds
    /\ now' = now + TickSeconds
    /\ UNCHANGED <<auxVars, variant, pc, reqVars, requests, request_patterns, audit_log>>

----------------------------------------------------------------------------
(* Processing steps *)

\* ProcessStep(step=, status=, details=) of main.py and main_optimized.py;
\* duration is not modelled
Step(name, details, status) ==
    [step |-> name, details |-> details, status |-> status]

\* ProcessingStep of main_q_style.py: a new step carries no mcp_tool and no
\* reasoning; start_time and duration are not modelled
ProcessingStep(name, details, status) ==
    [step |-> name, details |-> details, status |-> status,
     mcp_tool |-> "None", reasoning |-> "None"]

\* "step.mcp_tool = ...; step.reasoning = ..." on the i-th step of the list
Annotate(steps, i, mcp_tool, reasoning) ==
    [steps EXCEPT ![i] = [@ EXCEPT !.mcp_tool = mcp_tool, !.reasoning = reasoning]]

\* call_mcp_tool starts by annotating the step it is given
McpAnnotated(steps, i) ==
    Annotate(steps, i, "prompt_understanding",
             "Usando MCP para análisis completo y generación de entregables")

\* call_bedrock_with_system_prompt starts by annotating the step it is given
BedrockAnnotated(steps, i) ==
    Annotate(steps, i, "None",
             "Usando Bedrock con System Prompt personalizado para respuesta directa")

\* step.complete / step.fail reaching the first step of the list in place of
\* the i-th
Mark_first(steps, i, status, details) ==
    [steps EXCEPT ![1] = [@ EXCEPT !.status = status, !.details = details]]

\* step.complete(details) / step.fail(details) on the i-th step of the list;
\* "processing_steps[-1].status = ...; processing_steps[-1].details = ..."
Mark(steps, i, status, details) ==
    [steps EXCEPT ![i] = [@ EXCEPT !.status = status, !.details = details]]

\* the JSON body of a successful answer
Body(source, len, steps, tools, with_prompt) ==
    [ status |-> 200,
      response |-> [source |-> source, len |-> len],
      processing_steps |-> steps,
      tools_used |-> tools,
      system_prompt_used |-> with_prompt ]

\* raise HTTPException(status_code=..., detail=...)
HttpError(status, detail) == [status |-> status, detail |-> detail]

----------------------------------------------------------------------------
(* backend/main_q_style.py: POST /chat *)

\* call_mcp_tool without the "if response.status == 200" test: an error status
\* is read as an answer
q_call_mcp_tool_any_status(resp) ==
    IF resp.outcome = "exception"
    THEN [success |-> FALSE, error |-> "timeout or connection error", content_len |-> 25]
    ELSE IF resp.content = "malformed"
    THEN [success |-> FALSE, error |-> "AttributeError", content_len |-> 25]
    ELSE IF resp.content = "list" /\ SumLen(resp.items) > 0
    THEN [success |-> TRUE, error |-> "", content_len |-> SumLen(resp.items)]
    ELSE [success |-> TRUE, error |-> "", content_len |-> 28]

\* call_mcp_tool: the dict it returns for an answer of the tool service
q_call_mcp_tool(resp) ==
    IF resp.outcome = "http_error"
    THEN [success |-> FALSE, error |-> "MCP HTTP 500", content_len |-> 26]
    ELSE IF resp.outcome = "exception"
    THEN [success |-> FALSE, error |-> "timeout or connection error", content_len |-> 25]
    ELSE IF resp.content = "malformed"
    THEN \* item.get raises inside the try block
         [success |-> FALSE, error |-> "AttributeError", content_len |-> 25]
    ELSE IF resp.content = "list" /\ SumLen(resp.items) > 0
    THEN [success |-> TRUE, error |-> "", content_len |-> SumLen(resp.items)]
    ELSE \* content or "Procesamiento MCP completado"
         [success |-> TRUE, error |-> "", content_len |-> 28]

\* a validate_request that returns as soon as the rate limiter refuses: the
\* input validator, the anomaly detector and the audit log are not reached
q_validate_request_short_circuit ==
    /\ variant = "main_q_style"
    /\ pc = "received"
    /\ LET rl == allow_request(requests[client_ip], now)
           res == IF rl.allowed
                  THEN validate_request(request, TRUE)
                  ELSE [valid |-> FALSE, errors |-> <<"Rate limit exceeded">>]
       IN  /\ requests' = [requests EXCEPT ![client_ip] = rl.deque]
           /\ request_patterns' = IF rl.allowed
                                  THEN [request_patterns EXCEPT ![client_ip] = @ + 1]
                                  ELSE request_patterns
           /\ audit_log' = IF rl.allowed THEN audit_log + 1 ELSE audit_log
           /\ security_result' = res
           /\ IF res.valid
              THEN /\ pc' = "intent_analysis"
                   /\ reply' = reply
              ELSE /\ pc' = "failed"
                   /\ reply' = HttpError(IF MentionsRateLimit(res.errors) THEN 429 ELSE 400,
                                         res.errors)
    /\ UNCHANGED <<auxVars, variant, now, client_ip, request, processing_steps, use_mcp,
                   generate_deliverables, tool_response, mcp_result, bedrock_result,
                   toolCalls, modelCalls>>

\* security_manager.validate_request and the HTTPException on its failure
q_validate_request ==
    /\ variant = "main_q_style"
    /\ pc = "received"
    /\ LET rl == allow_request(requests[client_ip], now)
           res == validate_request(request, rl.allowed)
       IN  /\ requests' = [requests EXCEPT ![client_ip] = rl.deque]
           /\ request_patterns' = [request_patterns EXCEPT ![client_ip] = @ + 1]
           /\ audit_log' = audit_log + 1
           /\ security_result' = res
           /\ IF res.valid
              THEN /\ pc' = "intent_analysis"
                   /\ reply' = reply
              ELSE /\ pc' = "failed"
                   /\ reply' = HttpError(IF MentionsRateLimit(res.errors) THEN 429 ELSE 400,
                                         res.errors)
    /\ UNCHANGED <<auxVars, variant, now, client_ip, request, processing_steps, use_mcp,
                   generate_deliverables, tool_response, mcp_result, bedrock_result,
                   toolCalls, modelCalls>>

\* "intent_analysis = analyze_intent(request.message)", tabulated over the
\* messages that arrive (an explicit function, as input_validation)
intent_analysis == [m \in Messages |-> analyze_intent(m)] @@ <<>>

\* Paso 1: step1 is appended and completed with the intent
q_intent_analysis ==
    /\ variant = "main_q_style"
    /\ pc = "intent_analysis"
    /\ processing_steps' =
          Annotate(Append(processing_steps,
                          ProcessingStep("intent_analysis",
                                         <<"Intención", intent_analysis[request.message].intent>>,
                                         "completed")),
                   Len(processing_steps) + 1, "None", "Detectadas palabras")
    /\ pc' = "context_gathering"
    /\ UNCHANGED <<auxVars, variant, secVars, client_ip, request, security_result, use_mcp,
                   generate_deliverables, tool_response, mcp_result, bedrock_result,
                   reply, toolCalls, modelCalls>>

\* the decision with use_mcp=false honoured before generate_deliverables
q_use_mcp_gated(req) ==
    /\ req.use_mcp
    /\ \/ req.generate_deliverables
       \/ intent_analysis[req.message].intent = "deliverable_request"

\* the decision of Paso 2
q_use_mcp(req) ==
    \/ req.generate_deliverables
    \/ req.use_mcp /\ intent_analysis[req.message].intent = "deliverable_request"

\* Paso 2: step2 is appended and completed with the strategy
q_context_gathering ==
    /\ variant = "main_q_style"
    /\ pc = "context_gathering"
    /\ use_mcp' = q_use_mcp(request)
    /\ processing_steps' = Append(processing_steps,
            ProcessingStep("context_gathering",
                 IF request.generate_deliverables
                 THEN <<"Forzando generación de entregables via MCP">>
                 ELSE IF use_mcp' THEN <<"Usando MCP para solicitud de entregables">>
                 ELSE <<"Usando Bedrock directo con System Prompt">>,
                 "completed"))
    /\ pc' = IF use_mcp' THEN "mcp_processing" ELSE "bedrock_processing"
    /\ UNCHANGED <<auxVars, variant, secVars, client_ip, request, security_result,
                   generate_deliverables, tool_response, mcp_result, bedrock_result,
                   reply, toolCalls, modelCalls>>

\* Paso 3, "if use_mcp": step3 is appended
q_mcp_processing ==
    /\ variant = "main_q_style"
    /\ pc = "mcp_processing"
    /\ processing_steps' = Append(processing_steps,
            ProcessingStep("mcp_processing", <<"Procesando con MCP backend...">>, "running"))
    /\ pc' = "call_mcp"
    /\ UNCHANGED <<auxVars, variant, secVars, client_ip, request, security_result, use_mcp,
                   generate_deliverables, tool_response, mcp_result, bedrock_result,
                   reply, toolCalls, modelCalls>>

\* the failure branch as a retry loop: the tool is called again
q_mcp_failed_retry(n, res) ==
    /\ processing_steps' = processing_steps
    /\ reply' = reply
    /\ pc' = "call_mcp"

\* the failure branch without step3.fail(...): the tool step stays "running"
q_mcp_failed_unmarked(n, res) ==
    /\ processing_steps' =
          Append(McpAnnotated(processing_steps, n),
                 ProcessingStep("bedrock_processing",
                      <<"Fallback a Bedrock con System Prompt...">>, "running"))
    /\ reply' = reply
    /\ pc' = "call_bedrock"

\* "else: step3.fail(...)": step3 is marked failed with the error and step4
\* is appended for the fallback to Bedrock
q_mcp_failed(n, res) ==
    /\ processing_steps' =
          Append(Mark(McpAnnotated(processing_steps, n), n, "failed", <<"Error MCP", res.error>>),
                 ProcessingStep("bedrock_processing",
                      <<"Fallback a Bedrock con System Prompt...">>, "running"))
    /\ reply' = reply
    /\ pc' = "call_bedrock"

\* "await call_mcp_tool" and what follows it: the answer from the tool result,
\* or the fallback
q_mcp_call ==
    /\ variant = "main_q_style"
    /\ pc = "call_mcp"
    /\ \E resp \in ToolResponses :
        LET res == q_call_mcp_tool(resp)
            n == Len(processing_steps)
        IN  /\ tool_response' = resp
            /\ mcp_result' = res
            /\ toolCalls' = toolCalls + 1
            /\ IF res.success
               THEN /\ processing_steps' =
                          Mark(McpAnnotated(processing_steps, n), n, "completed",
                               <<"MCP procesado exitosamente">>)
                    /\ reply' = Body("mcp", res.content_len, processing_steps',
                                     <<"MCP", "prompt_understanding">>, FALSE)
                    /\ pc' = "responded"
               ELSE q_mcp_failed(n, res)
    /\ UNCHANGED <<auxVars, variant, secVars, client_ip, request, security_result, use_mcp,
                   generate_deliverables, bedrock_result, modelCalls>>

\* Paso 3, "else": step3 is the Bedrock step
q_bedrock_processing ==
    /\ variant = "main_q_style"
    /\ pc = "bedrock_processing"
    /\ processing_steps' = Append(processing_steps,
            ProcessingStep("bedrock_processing", <<"Procesando con Bedrock + System Prompt...">>,
                 "running"))
    /\ pc' = "call_bedrock"
    /\ UNCHANGED <<auxVars, variant, secVars, client_ip, request, security_result, use_mcp,
                   generate_deliverables, tool_response, mcp_result, bedrock_result,
                   reply, toolCalls, modelCalls>>

\* the failure branch calling Bedrock again in place of raising
q_bedrock_failed_retry(n, err) ==
    /\ processing_steps' = processing_steps
    /\ reply' = reply
    /\ pc' = "call_bedrock"

\* "else: step4.fail(...); raise HTTPException(status_code=500, ...)"
q_bedrock_failed(n, err) ==
    /\ processing_steps' = 
          Mark(BedrockAnnotated(processing_steps, n), n, "failed", <<"Error Bedrock", err>>)
    /\ reply' = HttpError(500, <<err>>)
    /\ pc' = "failed"

\* "await call_bedrock_with_system_prompt" (it catches every exception) and
\* what follows it: the answer, or step4 failed and HTTP 500
q_bedrock_call ==
    /\ variant = "main_q_style"
    /\ pc = "call_bedrock"
    /\ \E o \in BedrockOutcomes :
        LET n == Len(processing_steps)
        IN  /\ modelCalls' = modelCalls + 1
            /\ IF o = "ok"
               THEN /\ bedrock_result' = [success |-> TRUE, error |-> ""]
                    /\ processing_steps' =
                          Mark(BedrockAnnotated(processing_steps, n), n, "completed",
                               <<"Bedrock procesado exitosamente">>)
                    /\ reply' = Body("bedrock", 0, processing_steps', <<"Bedrock">>, TRUE)
                    /\ pc' = "responded"
               ELSE /\ bedrock_result' = [success |-> FALSE, error |-> "Bedrock error"]
                    /\ q_bedrock_failed(n, "Bedrock error")
    /\ UNCHANGED <<auxVars, variant, secVars, client_ip, request, security_result, use_mcp,
                   generate_deliverables, tool_response, mcp_result, toolCalls>>

q_chat_endpoint ==
    \/ q_validate_request
    \/ q_intent_analysis
    \/ q_context_gathering
    \/ q_mcp_processing
    \/ q_mcp_call
    \/ q_bedrock_processing
    \/ q_bedrock_call

----------------------------------------------------------------------------
(* backend/main.py: POST /chat *)

\* call_mcp_tool_async: data.get("toolResult", {}) on a 200, {"error": ...} otherwise
call_mcp_tool_async(resp) ==
    IF resp.outcome = "http_error"
    THEN [error |-> "MCP error: 500", content |-> "absent", items |-> <<>>]
    ELSE IF resp.outcome = "exception"
    THEN [error |-> "timeout or connection error", content |-> "absent", items |-> <<>>]
    ELSE [error |-> "", content |-> resp.content, items |-> resp.items]

\* "if not (<acknowledgement> in text and len(text.split('\n')) < 10)"
IsMetadata(item) == item.ack /\ item.lines < MetadataLines

\* len(final_response.strip()) for final_response = the kept texts, each
\* followed by "\n": strip() removes the last "\n"
RECURSIVE JoinedLen(_)
JoinedLen(items) ==
    IF items = <<>> THEN 0 ELSE Head(items).len + 1 + JoinedLen(Tail(items))

StrippedLen(items) == IF items = <<>> THEN 0 ELSE JoinedLen(items) - 1

\* the texts main.py keeps of a tool result
main_kept(items) == SelectSeq(items, LAMBDA it : ~IsMetadata(it))

\* the usefulness test with ">= 100" for "> 100"
main_useful_from_100(items) ==
    /\ StrippedLen(main_kept(items)) > 0
    /\ StrippedLen(main_kept(items)) >= UsefulLength

\* "if final_response.strip() and len(final_response.strip()) > 100"
main_useful(items) ==
    /\ StrippedLen(main_kept(items)) > 0
    /\ StrippedLen(main_kept(items)) > UsefulLength

\* Paso 1: both classifiers, the manual overrides, the analysis step
main_analysis ==
    /\ variant = "main"
    /\ pc = "received"
    /\ LET u == main_should_use_mcp(request.message)
           g == main_should_generate_deliverables(request.message)
           mcp_reason == IF ~request.use_mcp THEN <<"Deshabilitado por usuario">> ELSE u.reason
           deliverable_reason ==
               IF request.generate_deliverables THEN <<"Forzado por usuario">> ELSE g.reason
       IN  /\ use_mcp' = (request.use_mcp /\ u.use)
           /\ generate_deliverables' = (request.generate_deliverables \/ g.use)
           /\ processing_steps' = Append(processing_steps,
                  Step("analysis", <<mcp_reason, deliverable_reason>>, "completed"))
           /\ pc' = IF use_mcp' /\ generate_deliverables'
                    THEN "mcp_processing" ELSE "bedrock_processing"
    /\ UNCHANGED <<auxVars, variant, secVars, client_ip, request, security_result, tool_response,
                   mcp_result, bedrock_result, reply, toolCalls, modelCalls>>

\* Paso 2, "if use_mcp and generate_deliverables": the MCP step is appended
main_mcp_processing ==
    /\ variant = "main"
    /\ pc = "mcp_processing"
    /\ processing_steps' = Append(processing_steps,
            Step("mcp_processing", <<"Generando entregables con MCP...">>, "running"))
    /\ pc' = "call_mcp"
    /\ UNCHANGED <<auxVars, variant, secVars, client_ip, request, security_result, use_mcp,
                   generate_deliverables, tool_response, mcp_result, bedrock_result,
                   reply, toolCalls, modelCalls>>

\* "await call_mcp_tool_async" and what follows it: the answer from a useful
\* tool result, the step marked failed for the fall-through to Bedrock, or the
\* TypeError of a content whose items are no objects, caught as HTTP 500
main_mcp_call ==
    /\ variant = "main"
    /\ pc = "call_mcp"
    /\ \E resp \in ToolResponses :
        LET res == call_mcp_tool_async(resp)
            n == Len(processing_steps)
        IN  /\ tool_response' = resp
            /\ mcp_result' = res
            /\ toolCalls' = toolCalls + 1
            /\ IF res.error = "" /\ res.content = "malformed"
               THEN /\ processing_steps' = processing_steps
                    /\ reply' = HttpError(500, <<"TypeError">>)
                    /\ pc' = "failed"
               ELSE IF res.error = "" /\ res.content = "list" /\ main_useful(res.items)
               THEN /\ processing_steps' =
                          Mark(processing_steps, n, "completed", <<"MCP completado">>)
                    /\ reply' = Body("mcp", StrippedLen(main_kept(res.items)),
                                     processing_steps', <<"prompt_understanding">>, FALSE)
                    /\ pc' = "responded"
               ELSE /\ processing_steps' =
                          Mark(processing_steps, n, "failed",
                               <<"MCP devolvió solo metadata - usando Bedrock">>)
                    /\ reply' = reply
                    /\ pc' = "bedrock_processing"
    /\ UNCHANGED <<auxVars, variant, secVars, client_ip, request, security_result, use_mcp,
                   generate_deliverables, bedrock_result, modelCalls>>

\* Paso 3: the Bedrock step is appended
main_bedrock_processing ==
    /\ variant = "main"
    /\ pc = "bedrock_processing"
    /\ processing_steps' = Append(processing_steps,
            Step("bedrock_processing", <<"Procesando con System Prompt...">>, "running"))
    /\ pc' = "call_bedrock"
    /\ UNCHANGED <<auxVars, variant, secVars, client_ip, request, security_result, use_mcp,
                   generate_deliverables, tool_response, mcp_result, bedrock_result,
                   reply, toolCalls, modelCalls>>

\* "await process_with_bedrock_system_prompt": the answer, or the exception it
\* raises, caught by the handler's "except Exception" as HTTP 500
main_bedrock_call ==
    /\ variant = "main"
    /\ pc = "call_bedrock"
    /\ \E o \in BedrockOutcomes :
        LET n == Len(processing_steps)
        IN  /\ modelCalls' = modelCalls + 1
            /\ IF o = "ok"
               THEN /\ bedrock_result' = [success |-> TRUE, error |-> ""]
                    /\ processing_steps' =
                          Mark(processing_steps, n, "completed", <<"Bedrock + System Prompt">>)
                    /\ reply' = Body("bedrock", 0, processing_steps',
                                     <<"bedrock_system_prompt">>, TRUE)
                    /\ pc' = "responded"
               ELSE /\ bedrock_result' = [success |-> FALSE, error |-> "Bedrock error"]
                    /\ processing_steps' = processing_steps
                    /\ reply' = HttpError(500, <<"Bedrock error">>)
                    /\ pc' = "failed"
    /\ UNCHANGED <<auxVars, variant, secVars, client_ip, request, security_result, use_mcp,
                   generate_deliverables, tool_response, mcp_result, toolCalls>>

main_chat_endpoint ==
    \/ main_analysis
    \/ main_mcp_processing
    \/ main_mcp_call
    \/ main_bedrock_processing
    \/ main_bedrock_call

----------------------------------------------------------------------------
(* backend/main_optimized.py: POST /chat *)

\* Paso 1
opt_analysis ==
    /\ variant = "main_optimized"
    /\ pc = "received"
    /\ LET u == opt_should_use_mcp(request.message)
           g == opt_should_generate_deliverables(request.message)
           mcp_reason == IF ~request.use_mcp THEN <<"Deshabilitado por usuario">> ELSE u.reason
           deliverable_reason ==
               IF request.generate_deliverables THEN <<"Solicitado por usuario">> ELSE g.reason
       IN  /\ use_mcp' = (request.use_mcp /\ u.use)
           /\ generate_deliverables' = (request.generate_deliverables \/ g.use)
           /\ processing_steps' = Append(processing_steps,
                  Step("analysis", <<mcp_reason, deliverable_reason>>, "completed"))
           /\ pc' = IF use_mcp' /\ generate_deliverables'
                    THEN "mcp_processing" ELSE "bedrock_processing"
    /\ UNCHANGED <<auxVars, variant, secVars, client_ip, request, security_result, tool_response,
                   mcp_result, bedrock_result, reply, toolCalls, modelCalls>>

\* Paso 2, "if use_mcp and generate_deliverables"
opt_mcp_processing ==
    /\ variant = "main_optimized"
    /\ pc = "mcp_processing"
    /\ processing_steps' = Append(processing_steps,
            Step("mcp_processing", <<"Generando entregables con MCP...">>, "running"))
    /\ pc' = "call_mcp"
    /\ UNCHANGED <<auxVars, variant, secVars, client_ip, request, security_result, use_mcp,
                   generate_deliverables, tool_response, mcp_result, bedrock_result,
                   reply, toolCalls, modelCalls>>

\* "await call_mcp_tool_async" and what follows it: every result without
\* "error" is answered from the tool result, whatever its content
opt_mcp_call ==
    /\ variant = "main_optimized"
    /\ pc = "call_mcp"
    /\ \E resp \in ToolResponses :
        LET res == call_mcp_tool_async(resp)
            n == Len(processing_steps)
        IN  /\ tool_response' = resp
            /\ mcp_result' = res
            /\ toolCalls' = toolCalls + 1
            /\ IF res.error = "" /\ res.content = "malformed"
               THEN /\ processing_steps' = processing_steps
                    /\ reply' = HttpError(500, <<"TypeError">>)
                    /\ pc' = "failed"
               ELSE IF res.error = ""
               THEN /\ processing_steps' =
                          Mark(processing_steps, n, "completed", <<"MCP completado">>)
                    /\ reply' = Body("mcp", StrippedLen(res.items), processing_steps',
                                     <<"prompt_understanding">>, FALSE)
                    /\ pc' = "responded"
               ELSE /\ processing_steps' =
                          Mark(processing_steps, n, "failed", <<"MCP falló", res.error>>)
                    /\ reply' = reply
                    /\ pc' = "bedrock_processing"
    /\ UNCHANGED <<auxVars, variant, secVars, client_ip, request, security_result, use_mcp,
                   generate_deliverables, bedrock_result, modelCalls>>

\* Paso 3
opt_bedrock_processing ==
    /\ variant = "main_optimized"
    /\ pc = "bedrock_processing"
    /\ processing_steps' = Append(processing_steps,
            Step("bedrock_processing", <<"Procesando con Bedrock...">>, "running"))
    /\ pc' = "call_bedrock"
    /\ UNCHANGED <<auxVars, variant, secVars, client_ip, request, security_result, use_mcp,
                   generate_deliverables, tool_response, mcp_result, bedrock_result,
                   reply, toolCalls, modelCalls>>

\* "await process_with_bedrock_optimized"
opt_bedrock_call ==
    /\ variant = "main_optimized"
    /\ pc = "call_bedrock"
    /\ \E o \in BedrockOutcomes :
        LET n == Len(processing_steps)
        IN  /\ modelCalls' = modelCalls + 1
            /\ IF o = "ok"
               THEN /\ bedrock_result' = [success |-> TRUE, error |-> ""]
                    /\ processing_steps' =
                          Mark(processing_steps, n, "completed", <<"Bedrock completado">>)
                    /\ reply' = Body("bedrock", 0, processing_steps',
                                     <<"bedrock_optimized">>, TRUE)
                    /\ pc' = "responded"
               ELSE /\ bedrock_result' = [success |-> FALSE, error |-> "Bedrock error"]
                    /\ processing_steps' = processing_steps
                    /\ reply' = HttpError(500, <<"Bedrock error">>)
                    /\ pc' = "failed"
    /\ UNCHANGED <<auxVars, variant, secVars, client_ip, request, security_result, use_mcp,
                   generate_deliverables, tool_response, mcp_result, toolCalls>>

opt_chat_endpoint ==
    \/ opt_analysis
    \/ opt_mcp_processing
    \/ opt_mcp_call
    \/ opt_bedrock_processing
    \/ opt_bedrock_call

----------------------------------------------------------------------------
(* Specifications *)

\* a step of the handler of the request in flight
HandlerStep == q_chat_endpoint \/ main_chat_endpoint \/ opt_chat_endpoint

Next == NewRequest \/ Tick \/ HandlerStep \/ EndRequest

Spec == Init /\ [][Next]_vars

\* The event loop runs a handler that can take a step; every outbound call
\* returns or times out (aiohttp total=30, requests timeout=15).
FairSpec == Spec /\ WF_vars(HandlerStep)

----------------------------------------------------------------------------
(* Properties of the chat orchestration *)

\* the tool service answered with a non-200 status, or not at all
ToolFailed ==
    /\ tool_response # None
    /\ tool_response.outcome \in {"http_error", "exception"}

\* the handler is on its way to the Bedrock call, or has made it
OnModelPath == pc \in {"bedrock_processing", "call_bedrock"} \/ modelCalls >= 1

\* position of the first step of that name in a list of steps, 0 when absent
StepIndex(steps, name) ==
    IF \E i \in 1..Len(steps) : steps[i].step = name
    THEN CHOOSE i \in 1..Len(steps) :
            steps[i].step = name /\ \A j \in 1..(i - 1) : steps[j].step # name
    ELSE 0

\* C1: whenever the tool call of a request failed (non-200 status, connection
\* error or timeout), the handler goes on to the Bedrock fallback and the
\* request ends with exactly one Bedrock call: never none, never two.
C1_FallbackExactlyOnce ==
    ToolFailed =>
        /\ OnModelPath
        /\ modelCalls <= 1
        /\ pc \in Terminal => modelCalls = 1

\* C1 witness: a request whose tool call failed has ended after one Bedrock call.
C1_Witness ==
    /\ ToolFailed
    /\ pc \in Terminal
    /\ toolCalls = 1
    /\ modelCalls = 1

\* C8: within one request the tool service is called at most once and
\* Bedrock is called at most once, whatever the calls return.
C8_AtMostOneCallEach ==
    /\ toolCalls <= 1
    /\ modelCalls <= 1

\* C8 witness: a request has ended after a failed tool call and a failed
\* Bedrock call, one call each.
C8_Witness ==
    /\ pc = "failed"
    /\ ToolFailed
    /\ bedrock_result # None
    /\ ~bedrock_result.success
    /\ toolCalls = 1
    /\ modelCalls = 1

\* the request has a step of the tool path / of the model path
ToolPathUsed == StepIndex(processing_steps, "mcp_processing") # 0
ModelPathUsed == StepIndex(processing_steps, "bedrock_processing") # 0

\* the request was routed and has ended (a request the security manager
\* rejects is never routed and has no steps)
Routed == pc \in Terminal /\ processing_steps # <<>>

\* in a list of steps the failed tool step comes before the model step
FailedToolStepFirst(steps) ==
    LET t == StepIndex(steps, "mcp_processing")
        m == StepIndex(steps, "bedrock_processing")
    IN  /\ t # 0
        /\ m # 0
        /\ steps[t].status = "failed"
        /\ t < m

\* C3: every routed request uses the tool path or the model path, and uses
\* both only when the tool step is marked failed: then the model step comes
\* after the failed tool step, also in the steps returned to the caller; a
\* failed tool step is always followed by the model path. A path is used
\* exactly when its service is called.
C3_OnePathUnlessToolFails ==
    /\ Routed => (ToolPathUsed \/ ModelPathUsed)
    /\ Routed => ((ToolPathUsed <=> toolCalls = 1) /\ (ModelPathUsed <=> modelCalls = 1))
    /\ (ToolPathUsed /\ ModelPathUsed) => FailedToolStepFirst(processing_steps)
    /\ (Routed /\ ToolPathUsed
          /\ processing_steps[StepIndex(processing_steps, "mcp_processing")].status = "failed")
        => ModelPathUsed
    /\ (pc = "responded" /\ toolCalls = 1 /\ modelCalls = 1)
        => FailedToolStepFirst(reply.processing_steps)

\* C3 witness: a request answered by the fallback; the returned steps hold the
\* failed tool step before the completed model step.
C3_Witness ==
    /\ pc = "responded"
    /\ toolCalls = 1
    /\ modelCalls = 1
    /\ FailedToolStepFirst(reply.processing_steps)
    /\ reply.processing_steps[Len(reply.processing_steps)].status = "completed"

\* the tool service has answered this request's call
ToolReturned == tool_response # None

\* the request was answered from the tool result, without a Bedrock call
AnsweredFromTool ==
    /\ pc = "responded"
    /\ reply.response.source = "mcp"
    /\ modelCalls = 0

\* length of the substantive text of a tool answer: its texts other than the
\* bare one-line acknowledgement, joined by newlines
C2_SubstantiveLen(resp) ==
    LET sel == SelectSeq(resp.items, LAMBDA it : ~(it.ack /\ it.lines = 1))
    IN  IF resp.content # "list" \/ sel = <<>> THEN 0 ELSE SumLen(sel) + Len(sel) - 1

C2_KeptLen(resp) ==
    LET kept == SelectSeq(resp.items, LAMBDA it : ~(it.ack /\ it.lines < 10))
    IN  IF resp.content # "list" \/ kept = <<>> THEN 0 ELSE SumLen(kept) + Len(kept) - 1

Decided ==
    \/ pc \in {"mcp_processing", "call_mcp", "bedrock_processing", "call_bedrock"}
    \/ Routed

\* the request was routed to the tool path
ToolPathTaken == pc = "mcp_processing" \/ ToolPathUsed

\* should_use_mcp of the variant selects the tool service (in main_q_style.py:
\* analyze_intent finds a deliverable request)
ClassifierSelectsTool ==
    IF variant = "main_q_style"
    THEN analyze_intent(request.message).intent = "deliverable_request"
    ELSE IF variant = "main"
    THEN main_should_use_mcp(request.message).use
    ELSE opt_should_use_mcp(request.message).use

\* should_generate_deliverables of the variant finds a trigger
ClassifierSelectsDeliverables ==
    IF variant = "main"
    THEN main_should_generate_deliverables(request.message).use
    ELSE opt_should_generate_deliverables(request.message).use

\* the decision computed from the message alone, without the overrides
ComputedDecision ==
    IF variant = "main_q_style"
    THEN ClassifierSelectsTool
    ELSE ClassifierSelectsTool /\ ClassifierSelectsDeliverables

\* C4 as stated, with use_mcp=false as the override that disables tools,
\* generate_deliverables=true as the override that requests them and the
\* defaults as no override: a request that disables tools never reaches the
\* tool path; any other request takes it iff it requests tools or the
\* decision computed from the message selects it.
C4_AsStated ==
    Decided =>
        (ToolPathTaken <=>
            /\ request.use_mcp
            /\ request.generate_deliverables \/ ComputedDecision)

\* C4 (amended): in main_q_style.py the tool path is taken iff
\* generate_deliverables is set (also when use_mcp is false) or use_mcp is
\* true and the intent is a deliverable request. In main.py and
\* main_optimized.py it is taken iff use_mcp is true, should_use_mcp selects
\* the tool path, and generate_deliverables is set or
\* should_generate_deliverables finds a trigger; there a request with
\* use_mcp=false never reaches the tool path.
C4_RoutingRule ==
    Decided =>
        IF variant = "main_q_style"
        THEN ToolPathTaken <=>
                \/ request.generate_deliverables
                \/ request.use_mcp /\ ClassifierSelectsTool
        ELSE /\ ToolPathTaken <=>
                  /\ request.use_mcp
                  /\ ClassifierSelectsTool
                  /\ request.generate_deliverables \/ ClassifierSelectsDeliverables
             /\ ~request.use_mcp => ~ToolPathTaken

\* C4 witness: main_q_style.py called the tool service for a request that
\* disables use_mcp and sets generate_deliverables.
C4_Witness ==
    /\ variant = "main_q_style"
    /\ toolCalls = 1
    /\ ~request.use_mcp
    /\ request.generate_deliverables
    /\ ToolPathTaken

\* the lowered message holds an entry of both keyword lists
HasBoth(conversational, deliverable, m) ==
    /\ \E i \in 1..Len(conversational) : Contains(conversational[i], m)
    /\ \E i \in 1..Len(deliverable) : Contains(deliverable[i], m)

\* the conversational and the deliverable keywords of the variant
ConversationalKeywords ==
    IF variant = "main_q_style" THEN q_simple_keywords
    ELSE IF variant = "main" THEN main_bedrock_triggers ELSE opt_bedrock_triggers

DeliverableKeywords ==
    IF variant = "main_q_style" THEN q_deliverable_keywords
    ELSE IF variant = "main" THEN main_mcp_triggers ELSE opt_mcp_triggers

\* kw is the first entry of the list, in list order, that the message holds
FirstMatched(kw, list, m) ==
    \E i \in 1..Len(list) :
        /\ list[i] = kw
        /\ Contains(kw, m)
        /\ \A j \in 1..(i - 1) : ~Contains(list[j], m)

\* the analysis step of main.py / main_optimized.py cites kw as the reason of
\* the routing
ReasonCites(kw) ==
    /\ Len(processing_steps[1].details[1]) = 2
    /\ processing_steps[1].details[1][2] = kw

\* the reason of the analysis step cites the conversational keyword found first
CitesFirstConversational ==
    \E i \in 1..Len(ConversationalKeywords) :
        /\ FirstMatched(ConversationalKeywords[i], ConversationalKeywords,
                        Lower(request.message))
        /\ ReasonCites(ConversationalKeywords[i])

ModelFailed == modelCalls >= 1 /\ ~bedrock_result.success

\* the step of that name is marked failed and its details hold the error text
FailedWithError(steps, name, err) ==
    LET i == StepIndex(steps, name)
    IN  /\ i # 0
        /\ steps[i].status = "failed"
        /\ err # ""
        /\ \E k \in 1..Len(steps[i].details) : steps[i].details[k] = err

\* the last step of that name is marked failed and its details hold the error
LastFailedWithError(steps, err) ==
    /\ steps # <<>>
    /\ steps[Len(steps)].step = "bedrock_processing"
    /\ steps[Len(steps)].status = "failed"
    /\ \E k \in 1..Len(steps[Len(steps)].details) : steps[Len(steps)].details[k] = err

\* C6 as stated: once the tool call of a request has failed, its step is
\* marked failed with the error text in the details; once the model call has
\* failed, its step is marked failed with the error text; and the answer of a
\* request that ends in such a failure carries the processing steps.
C6_AsStated ==
    /\ (toolCalls >= 1 /\ ToolFailed) =>
            FailedWithError(processing_steps, "mcp_processing", mcp_result.error)
    /\ ModelFailed =>
            /\ LastFailedWithError(processing_steps, bedrock_result.error)
            /\ "processing_steps" \in DOMAIN reply
            /\ reply.processing_steps = processing_steps

\* step new is step old marked completed or failed: nothing but its status
\* and details differ
MarkedOnly(old, new) ==
    /\ old.status = "running"
    /\ new.status \in {"completed", "failed"}
    /\ new = [old EXCEPT !.status = new.status, !.details = new.details]

\* step new is step old marked completed or failed, in main_q_style.py with the
\* mcp_tool and reasoning that call_mcp_tool and call_bedrock_with_system_prompt
\* set on it
MarkedAndAnnotated(old, new) ==
    /\ old.status = "running"
    /\ new.status \in {"completed", "failed"}
    /\ IF variant = "main_q_style"
       THEN new = [old EXCEPT !.status = new.status, !.details = new.details,
                              !.mcp_tool = new.mcp_tool, !.reasoning = new.reasoning]
       ELSE new = [old EXCEPT !.status = new.status, !.details = new.details]

\* the steps of the analysis phase: intent_analysis and context_gathering in
\* main_q_style.py, analysis in main.py and main_optimized.py
AnalysisSteps == IF variant = "main_q_style" THEN 2 ELSE 1

\* C7 as stated: while a request is handled, a step of the handler appends at
\* most one processing step, keeps the steps already in the list in place, and
\* changes such a step only by marking it completed or failed.
C7_AsStated ==
    [][pc' # "idle" =>
        /\ Len(processing_steps') \in {Len(processing_steps), Len(processing_steps) + 1}
        /\ \A i \in 1..Len(processing_steps) :
              \/ processing_steps'[i] = processing_steps[i]
              \/ MarkedOnly(processing_steps[i], processing_steps'[i])]_vars

\* C7 (amended): while a request is handled, the list of processing steps only
\* grows, by at most one step per step of the handler; the steps already in
\* the list stay in place; such a step changes only once, from running to
\* completed or failed, and in main_q_style.py that change also sets its
\* mcp_tool and reasoning. A routed request ends with one step per analysis
\* phase, one per tool call and one per model call: the answering transition
\* appends none.
C7_StepsOnlyGrow ==
    /\ [][pc' # "idle" =>
            /\ Len(processing_steps') \in {Len(processing_steps), Len(processing_steps) + 1}
            /\ \A i \in 1..Len(processing_steps) :
                  /\ processing_steps'[i].step = processing_steps[i].step
                  /\ \/ processing_steps'[i] = processing_steps[i]
                     \/ MarkedAndAnnotated(processing_steps[i], processing_steps'[i])]_vars
    /\ [](Routed => Len(processing_steps) = AnalysisSteps + toolCalls + modelCalls)

\* C7 witness: main_q_style.py answered from Bedrock after a failed tool call:
\* four steps, the third failed and annotated, the fourth completed.
C7_Witness ==
    /\ variant = "main_q_style"
    /\ pc = "responded"
    /\ Len(processing_steps) = 4
    /\ processing_steps[3].status = "failed"
    /\ processing_steps[3].mcp_tool = "prompt_understanding"
    /\ processing_steps[4].status = "completed"

\* C9: under a scheduler that keeps running the handler, every received
\* request reaches 'responded' or 'failed'; and a failed model call ends the
\* request in 'failed' with HTTP 500 after that one call, without a further
\* fallback.
C9_Terminates ==
    /\ [](pc = "received" => <>(pc \in Terminal))
    /\ [](ModelFailed => (pc = "failed" /\ reply.status = 500 /\ modelCalls = 1))

\* C9 witness: a request ended in 'failed' because the model call failed after
\* the tool call had failed.
C9_Witness ==
    /\ pc = "failed"
    /\ ModelFailed
    /\ toolCalls = 1
    /\ ToolFailed
    /\ reply.status = 500

\* validate_request rejected the request for the rate limit
RateLimited ==
    /\ security_result # None
    /\ \E i \in 1..Len(security_result.errors) :
          security_result.errors[i] = "Rate limit exceeded"

\* validate_input rejects the request
InvalidInput == security_result # None /\ ~validate_input(request).valid

\* C10 as stated, for main_q_style.py: a request rejected by the rate limiter
\* is answered 429, a request that fails input validation 400, a failed model
\* call 500, and a request answered 429 or 400 caused no tool and no model call.
C10_AsStated ==
    variant = "main_q_style" =>
        /\ RateLimited => (pc = "failed" /\ reply.status = 429)
        /\ InvalidInput => (pc = "failed" /\ reply.status = 400)
        /\ ModelFailed => (pc = "failed" /\ reply.status = 500)
        /\ reply.status \in {429, 400} => (toolCalls = 0 /\ modelCalls = 0)

\* C10 (amended), for main_q_style.py: a request rejected by the rate limiter
\* is answered 429, also when its input is invalid; a request within the limit
\* that fails input validation is answered 400; a failed model call is
\* answered 500; a request answered 429 or 400 caused no tool call, no model
\* call and no processing step.
C10_StatusCodes ==
    variant = "main_q_style" =>
        /\ RateLimited => (pc = "failed" /\ reply.status = 429)
        /\ (InvalidInput /\ ~RateLimited) => (pc = "failed" /\ reply.status = 400)
        /\ ModelFailed => (pc = "failed" /\ reply.status = 500)
        /\ reply.status \in {429, 400} =>
              (toolCalls = 0 /\ modelCalls = 0 /\ processing_steps = <<>>)
        /\ reply.status = 429 => RateLimited
        /\ reply.status = 400 => InvalidInput

\* C10 witness: a request over the rate limit whose input is also invalid was
\* answered 429 without any call.
C10_Witness ==
    /\ variant = "main_q_style"
    /\ RateLimited
    /\ InvalidInput
    /\ reply.status = 429
    /\ toolCalls = 0
    /\ modelCalls = 0

----------------------------------------------------------------------------
(* The rate limiters on their own: security_enhancements.RateLimiter and    *)
(* improvements.RateLimiter, called for two clients while the clock advances *)

\* Seconds by which the clock advances between two calls of a rate limiter.
RateStep == 60
\* Clock advances in a behaviour of the rate limiters.
RateTicks == 2

\* POST /chat at rest: no request is being handled
ChatAtRest ==
    /\ variant = "main_q_style"
    /\ pc = "idle"
    /\ client_ip = ""
    /\ request = None
    /\ security_result = None
    /\ processing_steps = <<>>
    /\ use_mcp = FALSE
    /\ generate_deliverables = FALSE
    /\ tool_response = None
    /\ mcp_result = None
    /\ bedrock_result = None
    /\ reply = NoReply
    /\ toolCalls = 0
    /\ modelCalls = 0
    /\ request_patterns = [c \in Clients |-> 0]
    /\ audit_log = 0

chatVars == <<variant, pc, reqVars, request_patterns, audit_log>>

\* improvements.RateLimiter.is_allowed with one comparison turned round: the
\* list is full only above max_requests
is_allowed_above(client_requests, t) ==
    LET kept == SelectSeq(client_requests, LAMBDA req_time : t - req_time < window_seconds)
    IN  IF Len(kept) <= max_requests
        THEN [allowed |-> TRUE, deque |-> Append(kept, t)]
        ELSE [allowed |-> FALSE, deque |-> kept]

\* improvements.RateLimiter.is_allowed that records a refused request as well
is_allowed_recording(client_requests, t) ==
    LET kept == SelectSeq(client_requests, LAMBDA req_time : t - req_time < window_seconds)
    IN  [allowed |-> Len(kept) < max_requests, deque |-> Append(kept, t)]

\* improvements.RateLimiter.is_allowed: the verdict and the client's list
\* afterwards (max_requests=10 and window=60 are the defaults of both classes)
is_allowed(client_requests, t) ==
    LET kept == SelectSeq(client_requests, LAMBDA req_time : t - req_time < window_seconds)
    IN  IF Len(kept) < max_requests
        THEN [allowed |-> TRUE, deque |-> Append(kept, t)]
        ELSE [allowed |-> FALSE, deque |-> kept]

\* RateLimiter.get_remaining_requests: the number returned and the deque
\* afterwards
get_remaining_requests(client_requests, t) ==
    LET kept == DropExpired(client_requests, t)
        left == max_requests - Len(kept)
    IN  [remaining |-> IF left > 0 THEN left ELSE 0, deque |-> kept]

RateInit ==
    /\ ChatAtRest
    /\ AuxIdle("rate")
    /\ now = 0
    /\ limiter \in Limiters
    /\ requests = [c \in RateClients |-> <<>>]
    /\ admitted = [c \in RateClients |-> <<>>]
    /\ rl_verdict = None
    /\ rl_calls = 0

\* the verdict of a call is kept, and an admitted request enters the history
Verdict(c, res) ==
    /\ requests' = [requests EXCEPT ![c] = res.deque]
    /\ rl_verdict' = [client |-> c, allowed |-> res.allowed]
    /\ admitted' = IF res.allowed
                   THEN [admitted EXCEPT ![c] = Append(@, now)]
                   ELSE admitted
    /\ rl_calls' = rl_calls + 1

\* security_manager.rate_limiter.allow_request(client_ip)
rl_allow_request ==
    /\ limiter = "security_enhancements"
    /\ rl_calls < MaxRequests
    /\ \E c \in RateClients : Verdict(c, allow_request(requests[c], now))
    /\ UNCHANGED <<chatVars, now, limiter>>
    /\ Frame("rate")

\* rate_limiter.is_allowed(client_ip) of improvements.py
imp_is_allowed ==
    /\ limiter = "improvements"
    /\ rl_calls < MaxRequests
    /\ \E c \in RateClients : Verdict(c, is_allowed(requests[c], now))
    /\ UNCHANGED <<chatVars, now, limiter>>
    /\ Frame("rate")

\* GET /rate-limit-status/{client_ip}: get_remaining_requests trims the deque
\* of the client it is asked about
rl_get_remaining_requests ==
    /\ limiter = "security_enhancements"
    /\ \E c \in RateClients :
        requests' = [requests EXCEPT ![c] = get_remaining_requests(@, now).deque]
    /\ UNCHANGED <<chatVars, now, rateVars>>
    /\ Frame("rate")

\* time.time() has advanced by the next call
RateTick ==
    /\ now < RateTicks * RateStep
    /\ now' = now + RateStep
    /\ UNCHANGED <<chatVars, requests, rateVars>>
    /\ Frame("rate")

RateSpec ==
    RateInit /\ [][\/ rl_allow_request
                   \/ imp_is_allowed
                   \/ rl_get_remaining_requests
                   \/ RateTick]_vars

\* requests of client c admitted in the window of window_seconds that starts
\* at t
AdmittedIn(c, t) ==
    Cardinality({i \in 1..Len(admitted[c]) :
                    t <= admitted[c][i] /\ admitted[c][i] < t + window_seconds})

C28_RejectedNotRecorded ==
    [][rl_calls' = rl_calls + 1 =>
          LET c == rl_verdict'.client
          IN  /\ \A d \in RateClients \ {c} :
                    /\ requests'[d] = requests[d]
                    /\ admitted'[d] = admitted[d]
                    /\ get_remaining_requests(requests'[d], now').remaining
                          = get_remaining_requests(requests[d], now).remaining
              /\ ~rl_verdict'.allowed =>
                    /\ admitted'[c] = admitted[c]
                    /\ \E k \in 0..Len(requests[c]) :
                          requests'[c] = SubSeq(requests[c], k + 1, Len(requests[c]))]_vars

\* C28 witness: a client was refused while its record was full and the other
\* client had requests on record.
C28_Witness ==
    /\ rl_verdict # None
    /\ ~rl_verdict.allowed
    /\ Len(requests[rl_verdict.client]) = max_requests
    /\ \E d \in RateClients \ {rl_verdict.client} : Len(requests[d]) > 0

----------------------------------------------------------------------------
(* The input validators on their own: InputValidator.validate_input of      *)
(* security_enhancements.py and InputValidator.validate_message of          *)
(* security_improvements.py, applied to messages around the length limit    *)

\* Characters below and above max_message_length the messages reach.
MaxOver == 2

\* the messages handed to the validators: a start, filled up with one
\* character to a length near 0 or near max_message_length
ValidationMessages ==
    LET starts == { <<>>, <<" ">>,
                    <<"j","a","v","a","s","c","r","i","p","t",":">>,
                    <<"i","m","p","o","r","t"," ","o","s">>,
                    <<"s","u","b","p","r","o","c","e","s","s">> }
        lengths == (0..MaxOver)
                   \cup ((max_message_length - MaxOver)..(max_message_length + MaxOver))
    IN  { [i \in 1..n |-> IF i <= Len(p) THEN p[i] ELSE f] :
            p \in starts, f \in {"a", " "}, n \in lengths }

\* not message.strip(), for a message that is not empty
Blank(message) == \A i \in 1..Len(message) : message[i] \in WhiteSpace

\* validate_message with the length compared by >=
validate_message_from_limit(message) ==
    IF message = <<>> \/ Blank(message)
    THEN [valid |-> FALSE, errors |-> <<"Mensaje vacío">>]
    ELSE IF Len(message) >= max_message_length
    THEN [valid |-> FALSE, errors |-> <<"Mensaje demasiado largo (máximo 10000 caracteres)">>]
    ELSE [valid |-> TRUE, errors |-> <<>>]

\* InputValidator.dangerous_patterns of security_improvements.py, searched
\* in message.lower(): system\s*\( , subprocess and os\.system stand where
\* security_enhancements.py has import\s+os
improved_dangerous(message) ==
    LET s == Lower(message)
    IN  \/ ScriptTag(s)
        \/ Contains(<<"j","a","v","a","s","c","r","i","p","t",":">>, s)
        \/ EventHandler(s)
        \/ LitWsLit(<<"e","v","a","l">>, 0, <<"(">>, s)
        \/ LitWsLit(<<"e","x","e","c">>, 0, <<"(">>, s)
        \/ LitWsLit(<<"s","y","s","t","e","m">>, 0, <<"(">>, s)
        \/ Contains(<<"_","_","i","m","p","o","r","t","_","_">>, s)
        \/ Contains(<<"s","u","b","p","r","o","c","e","s","s">>, s)
        \/ Contains(<<"o","s",".","s","y","s","t","e","m">>, s)

\* InputValidator.validate_message of security_improvements.py: (ok, text) as
\* a record; its max_message_length is 10000 as well
validate_message(message) ==
    IF message = <<>> \/ Blank(message)
    THEN [valid |-> FALSE, errors |-> <<"Mensaje vacío">>]
    ELSE IF Len(message) > max_message_length
    THEN [valid |-> FALSE,
          errors |-> <<"Mensaje demasiado largo (máximo 10000 caracteres)">>]
    ELSE IF improved_dangerous(message)
    THEN [valid |-> FALSE, errors |-> <<"Contenido potencialmente peligroso detectado">>]
    ELSE [valid |-> TRUE, errors |-> <<>>]

ValidationInit ==
    /\ ChatAtRest
    /\ AuxIdle("validation")
    /\ now = 0
    /\ requests = [c \in Clients |-> <<>>]
    /\ val_validator \in {"security_enhancements", "security_improvements"}
    /\ val_message \in ValidationMessages
    /\ val_result = None

\* the validator is applied to the message
val_validate ==
    /\ val_result = None
    /\ val_result' = IF val_validator = "security_enhancements"
                     THEN validate_input([message |-> val_message])
                     ELSE validate_message(val_message)
    /\ UNCHANGED <<chatVars, now, requests, val_validator, val_message>>
    /\ Frame("validation")

ValidationSpec == ValidationInit /\ [][val_validate]_vars

\* the validator in use objects to the content of the message, whatever its
\* length
Objectionable ==
    IF val_validator = "security_enhancements"
    THEN DangerousPattern(val_message)
    ELSE improved_dangerous(val_message) \/ Blank(val_message)

\* C12: a message of exactly max_message_length characters (to whose content
\* the validator does not object) is accepted, and every message one
\* character longer is rejected: with the error that names the length limit,
\* or as empty when validate_message finds it blank.
C12_LengthBoundary ==
    val_result # None =>
        /\ (Len(val_message) = max_message_length /\ ~Objectionable) => val_result.valid
        /\ Len(val_message) = max_message_length + 1 =>
              /\ ~val_result.valid
              /\ val_result.errors =
                    IF val_validator = "security_enhancements"
                    THEN <<"Message too long (max 10000 chars)">>
                    ELSE IF Blank(val_message)
                    THEN <<"Mensaje vacío">>
                    ELSE <<"Mensaje demasiado largo (máximo 10000 caracteres)">>

\* C12 witness: validate_input accepted a message of exactly
\* max_message_length characters.
C12_Witness ==
    /\ val_result # None
    /\ val_validator = "security_enhancements"
    /\ Len(val_message) = max_message_length
    /\ val_result.valid

----------------------------------------------------------------------------
(* The artifact store: S3FileUploader (s3_uploader.py), s3_utils.py and     *)
(* FileHandler (file_handler.py) writing to one bucket, and the handlers    *)
(* that upload the files a tool generated                                   *)

\* Upload calls in one behaviour.
MaxUploads == 2

\* what is handed to an upload: a str or bytes
Contents == { [type |-> "str", value |-> <<"a">>], [type |-> "bytes", value |-> <<98>>] }

\* the filename argument: absent, with a known extension, without one
FileNames == { None, [stem |-> "report", ext |-> ".md"], [stem |-> "report", ext |-> ""] }

\* mcp_result["files_generated"] / files_found: one or two file_info entries
FileLists ==
    LET FileInfos == [content : Contents, type : {"document"},
                      filename : {None, [stem |-> "report", ext |-> ".md"]}]
    IN  { <<f>> : f \in FileInfos } \cup { <<f, g>> : f, g \in FileInfos }

\* content.encode('utf-8') if isinstance(content, str) else content
content_bytes(content) ==
    IF content.type = "str"
    THEN [i \in DOMAIN content.value |-> IF content.value[i] = "a" THEN 97 ELSE 98]
    ELSE content.value

\* the three forms of URL the code hands out for an object
Url(form, key) ==
    CASE form = "global"   -> "https://controlwebinars2025.s3.amazonaws.com/" \o key
      [] form = "regional" -> "https://controlwebinars2025.s3.us-east-1.amazonaws.com/" \o key
      [] form = "signed"   -> "https://controlwebinars2025.s3.amazonaws.com/" \o key
                                  \o "?X-Amz-Expires=3600&X-Amz-Signature=s"

\* GET of a URL: S3 resolves the path to a key of the bucket
Fetch(url) ==
    IF \E k \in DOMAIN bucket : url \in { Url(f, k) : f \in {"global", "regional", "signed"} }
    THEN bucket[CHOOSE k \in DOMAIN bucket :
                    url \in { Url(f, k) : f \in {"global", "regional", "signed"} }]
    ELSE None

\* s3_utils.generate_presigned_url: the plain URL when the flag is off or
\* signing fails
generate_presigned_url(s3_key, signing_ok) ==
    IF use_presigned /\ signing_ok THEN Url("signed", s3_key) ELSE Url("regional", s3_key)

\* S3FileUploader.upload_file_content up to put_object: key, body and the
\* URL it returns; t is datetime.now(), unique_id the uuid it would draw
upload_file_content(content, file_type, filename, t, unique_id) ==
    LET named == IF filename = None
                 THEN file_type \o "_" \o ToString(t) \o "_" \o ToString(unique_id)
                 ELSE filename.stem \o filename.ext
        known == filename # None /\ filename.ext \in {".png", ".md", ".json", ".txt", ".html"}
        extension == CASE file_type = "diagram" -> ".png"
                       [] file_type = "document" -> ".md"
                       [] file_type = "json" -> ".json"
                       [] file_type = "html" -> ".html"
                       [] OTHER -> ".txt"
        full == IF known THEN named ELSE named \o extension
        s3_key == "proyectos/bedrock-playground/generated-files/" \o file_type \o "/" \o full
    IN  [via |-> "upload_file_content", key |-> s3_key, body |-> content_bytes(content),
         returned |-> <<Url("global", s3_key)>>]

\* s3_utils.upload_to_s3_sync: it returns one URL
upload_to_s3_sync(filename, content, project_name, tool_name, t, unique_id, signing_ok) ==
    LET key == "arquitecturas/" \o project_name \o "/" \o tool_name \o "/"
                   \o ToString(t) \o "_" \o ToString(unique_id) \o "_" \o filename
    IN  [via |-> "upload_to_s3_sync", key |-> key, body |-> content,
         returned |-> <<generate_presigned_url(key, signing_ok)>>]

\* FileHandler._process_single_file: upload_to_s3 under a key of its own,
\* then s3_url and presigned_url of the processed file
process_single_file(original_name, file_content, project_name, t, unique_id, signing_ok) ==
    LET s3_key == "archivos/" \o project_name \o "/"
                      \o ToString(t) \o "_" \o ToString(unique_id) \o "_" \o original_name
    IN  [via |-> "_process_single_file", key |-> s3_key, body |-> file_content,
         returned |-> IF use_presigned
                      THEN <<Url("regional", s3_key), generate_presigned_url(s3_key, signing_ok)>>
                      ELSE <<Url("regional", s3_key)>>]

\* s3.put_object succeeds or raises; the call is recorded with what the
\* caller got back. A uuid is never drawn twice.
Store(up, ok) ==
    /\ bucket' = IF ok
                 THEN [k \in DOMAIN bucket \cup {up.key} |->
                          IF k = up.key THEN up.body ELSE bucket[k]]
                 ELSE bucket
    /\ uploads' = Append(uploads, [up EXCEPT !.returned = IF ok THEN @ ELSE <<>>])
    /\ uuids' = uuids + 1

\* the exception of a failed upload leaves the handler
file_outcome_raises(a, ok, entry) ==
    IF ok
    THEN [a EXCEPT !.attempts = Append(@, ok), !.s3_files = Append(@, entry)]
    ELSE [a EXCEPT !.attempts = Append(@, ok), !.pc = "failed"]

\* the handler's loop after one file: "except Exception: logger.error(...)"
\* and on to the next file
file_outcome(a, ok, entry) ==
    [a EXCEPT !.attempts = Append(@, ok),
              !.s3_files = IF ok THEN Append(@, entry) ELSE @]

StoreInit ==
    /\ ChatAtRest
    /\ AuxIdle("store")
    /\ now = 0
    /\ requests = [c \in Clients |-> <<>>]
    /\ use_presigned \in BOOLEAN
    /\ bucket = [k \in {} |-> <<>>]
    /\ uploads = <<>>
    /\ uuids = 0
    /\ art = [pc |-> "idle"]

\* POST /upload-file
upload_file_to_s3 ==
    /\ Len(uploads) < MaxUploads
    /\ \E content \in Contents, filename \in FileNames, ok \in BOOLEAN :
          Store(upload_file_content(content, "document", filename, now, uuids + 1), ok)
    /\ UNCHANGED <<chatVars, now, requests, use_presigned, art>>
    /\ Frame("store")

\* a call of upload_to_s3_sync for one project, tool and filename
legacy_upload ==
    /\ Len(uploads) < MaxUploads
    /\ \E content \in Contents, ok \in BOOLEAN, signing_ok \in BOOLEAN :
          Store(upload_to_s3_sync("report.md", content_bytes(content), "general", "misc",
                                  now, uuids + 1, signing_ok), ok)
    /\ UNCHANGED <<chatVars, now, requests, use_presigned, art>>
    /\ Frame("store")

\* a tool response with generated files reaches one of the handlers;
\* handle_tool_use deals with one file
files_generated ==
    /\ art.pc = "idle"
    /\ \E handler \in {"chat_endpoint", "process_mcp_response", "handle_tool_use"},
          files \in FileLists :
          /\ handler = "handle_tool_use" => Len(files) = 1
          /\ art' = [pc |-> "processing", handler |-> handler, files |-> files,
                     attempts |-> <<>>, s3_files |-> <<>>]
    /\ UNCHANGED <<chatVars, now, requests, use_presigned, bucket, uploads, uuids>>
    /\ Frame("store")

\* the handler deals with its next file. handle_tool_use calls the coroutine
\* function upload_to_s3 without await: nothing is stored, file_url is the
\* coroutine object, and only decoding or downloading can raise.
process_file ==
    /\ art.pc = "processing"
    /\ Len(art.attempts) < Len(art.files)
    /\ LET file_info == art.files[Len(art.attempts) + 1]
           name == IF file_info.filename = None THEN "generated_file"
                   ELSE file_info.filename.stem \o file_info.filename.ext
       IN  \E ok \in BOOLEAN, signing_ok \in BOOLEAN :
             CASE art.handler = "chat_endpoint" ->
                    LET up == upload_file_content(file_info.content, file_info.type,
                                                  file_info.filename, now, uuids + 1)
                    IN  /\ Store(up, ok)
                        /\ art' = file_outcome(art, ok, [filename |-> name,
                                                         s3_url |-> up.returned[1]])
               [] art.handler = "process_mcp_response" ->
                    LET up == process_single_file(name, content_bytes(file_info.content),
                                                  "default", now, uuids + 1, signing_ok)
                    IN  /\ Store(up, ok)
                        /\ art' = file_outcome(art, ok, [filename |-> name,
                                                         s3_url |-> up.returned[1]])
               [] art.handler = "handle_tool_use" ->
                    /\ art' = file_outcome(art, ok, [filename |-> name,
                                                     s3_url |-> "<coroutine object upload_to_s3>"])
                    /\ UNCHANGED <<bucket, uploads, uuids>>
    /\ UNCHANGED <<chatVars, now, requests, use_presigned>>
    /\ Frame("store")

\* every file has been dealt with: the handler returns its response
files_response ==
    /\ art.pc = "processing"
    /\ Len(art.attempts) = Len(art.files)
    /\ art' = [art EXCEPT !.pc = "responded"]
    /\ UNCHANGED <<chatVars, now, requests, use_presigned, bucket, uploads, uuids>>
    /\ Frame("store")

StoreSpec ==
    StoreInit /\ [][\/ upload_file_to_s3
                    \/ legacy_upload
                    \/ files_generated
                    \/ process_file
                    \/ files_response]_vars

\* upload i put its object into the bucket
Stored(i) == uploads[i].returned # <<>>

\* C13: any two uploads, also two with the same project, tool and filename,
\* get two distinct storage keys.
C13_AsStated ==
    \A i, j \in 1..Len(uploads) :
        (i # j /\ Stored(i) /\ Stored(j)) => uploads[i].key # uploads[j].key

\* C14: fetching the object at a URL an upload returned yields the bytes that
\* were uploaded, also after later uploads.
C14_AsStated ==
    \A i \in 1..Len(uploads) :
        \A n \in 1..Len(uploads[i].returned) :
            Fetch(uploads[i].returned[n]) = uploads[i].body

\* the files of the request whose upload succeeded, up to file i
Succeeded(i) == { j \in 1..i : art.attempts[j] }

\* C15: a failed upload never aborts the request that triggered it: the
\* handler goes on to the remaining files, and its response reports exactly
\* the files whose upload succeeded, in their order.
C15_FailureNotFatal ==
    /\ art.pc \in {"idle", "processing", "responded"}
    /\ art.pc # "idle" =>
          /\ Len(art.attempts) <= Len(art.files)
          /\ art.pc = "responded" => Len(art.attempts) = Len(art.files)
          /\ Len(art.s3_files) = Cardinality(Succeeded(Len(art.attempts)))
          /\ \A i \in Succeeded(Len(art.attempts)) :
                art.s3_files[Cardinality(Succeeded(i))].filename =
                    IF art.files[i].filename = None THEN "generated_file"
                    ELSE art.files[i].filename.stem \o art.files[i].filename.ext

\* C15 witness: the response was returned after the upload of the first file
\* failed and that of the second succeeded.
C15_Witness ==
    /\ art.pc = "responded"
    /\ art.attempts = <<FALSE, TRUE>>
    /\ Len(art.s3_files) = 1

\* C16: every upload returns a durable URL, and a signed URL besides it only
\* when USE_PRESIGNED_URLS is enabled.
C16_AsStated ==
    \A i \in 1..Len(uploads) :
        Stored(i) =>
            LET returned == uploads[i].returned
                key == uploads[i].key
            IN  /\ \E n \in 1..Len(returned) :
                      returned[n] \in {Url("global", key), Url("regional", key)}
                /\ (\E n \in 1..Len(returned) : returned[n] = Url("signed", key))
                      => use_presigned

----------------------------------------------------------------------------
(* The process-wide system prompt: GET and POST /system-prompt,             *)
(* POST /system-prompt/reset, and the chat request that reads it            *)

\* Writes and resets in one behaviour.
MaxWrites == 3

\* a first write is never replaced
system_prompt_after_first_wins(op, current) ==
    IF op.kind = "reset" THEN DEFAULT_SYSTEM_PROMPT
    ELSE IF current = DEFAULT_SYSTEM_PROMPT THEN op.prompt ELSE current

\* the module-level prompt after update_system_prompt / reset_system_prompt
system_prompt_after(op, current) ==
    IF op.kind = "reset" THEN DEFAULT_SYSTEM_PROMPT ELSE op.prompt

PromptInit ==
    /\ ChatAtRest
    /\ AuxIdle("prompt")
    /\ now = 0
    /\ requests = [c \in Clients |-> <<>>]
    /\ prompt_app \in {"main", "main_q_style"}
    /\ current_system_prompt = DEFAULT_SYSTEM_PROMPT
    /\ prompt_log = <<>>
    /\ got = None
    /\ asking = [pc |-> "idle"]

\* a write that happens while a chat request is under way is one the
\* request overlaps
Overlapped(value) ==
    IF asking.pc \in {"received", "read"}
    THEN [asking EXCEPT !.current = @ \cup {value}]
    ELSE asking

\* GET /system-prompt
get_system_prompt ==
    /\ got' = [system_prompt |-> current_system_prompt, after |-> Len(prompt_log)]
    /\ UNCHANGED <<chatVars, now, requests, prompt_app, current_system_prompt,
                   prompt_log, asking>>
    /\ Frame("prompt")

\* POST /system-prompt; main.py answers 400 to a body without "prompt"
update_system_prompt ==
    /\ Len(prompt_log) < MaxWrites
    /\ \E body \in {[prompt |-> ""], [prompt |-> "p1"], [prompt |-> "p2"], [other |-> "p1"]} :
          IF "prompt" \in DOMAIN body
          THEN LET op == [kind |-> "post", prompt |-> body.prompt]
               IN  /\ current_system_prompt' = system_prompt_after(op, current_system_prompt)
                   /\ prompt_log' = Append(prompt_log, op)
                   /\ asking' = Overlapped(current_system_prompt')
          ELSE /\ prompt_app = "main"
               /\ UNCHANGED <<current_system_prompt, prompt_log, asking>>
    /\ UNCHANGED <<chatVars, now, requests, prompt_app, got>>
    /\ Frame("prompt")

\* POST /system-prompt/reset, which main.py does not have
reset_system_prompt ==
    /\ prompt_app = "main_q_style"
    /\ Len(prompt_log) < MaxWrites
    /\ current_system_prompt' = system_prompt_after([kind |-> "reset"], current_system_prompt)
    /\ prompt_log' = Append(prompt_log, [kind |-> "reset"])
    /\ asking' = Overlapped(current_system_prompt')
    /\ UNCHANGED <<chatVars, now, requests, prompt_app, got>>
    /\ Frame("prompt")

\* POST /chat arrives and is parsed into a ChatRequest: the system_prompt
\* field of main.py defaults to the text AWS_ARCHITECT_SYSTEM_PROMPT had when
\* the class was defined, that of main_q_style.py to None
prompt_chat_request ==
    /\ asking.pc \in {"idle", "sent"}
    /\ \E own \in {None, [text |-> ""], [text |-> "p3"]} :
          asking' = [pc |-> "received",
                     own |-> own,
                     current |-> {current_system_prompt},
                     request |->
                        [system_prompt |->
                            IF own # None THEN own
                            ELSE IF prompt_app = "main"
                            THEN [text |-> DEFAULT_SYSTEM_PROMPT]
                            ELSE None],
                     system_prompt |-> None]
    /\ UNCHANGED <<chatVars, now, requests, prompt_app, current_system_prompt,
                   prompt_log, got>>
    /\ Frame("prompt")

\* main_q_style.py: system_prompt = sanitized_request.system_prompt or
\* current_system_prompt; main.py passes request.system_prompt on
prompt_chat_read ==
    /\ asking.pc = "received"
    /\ LET field == asking.request.system_prompt
       IN  asking' = [asking EXCEPT
                        !.pc = "read",
                        !.system_prompt =
                            IF prompt_app = "main_q_style" /\ (field = None \/ field.text = "")
                            THEN [text |-> current_system_prompt]
                            ELSE field]
    /\ UNCHANGED <<chatVars, now, requests, prompt_app, current_system_prompt,
                   prompt_log, got>>
    /\ Frame("prompt")

\* the request is sent to the model with the system prompt it holds
prompt_chat_send ==
    /\ asking.pc = "read"
    /\ asking' = [asking EXCEPT !.pc = "sent"]
    /\ UNCHANGED <<chatVars, now, requests, prompt_app, current_system_prompt,
                   prompt_log, got>>
    /\ Frame("prompt")

PromptSpec ==
    PromptInit /\ [][\/ get_system_prompt
                     \/ update_system_prompt
                     \/ reset_system_prompt
                     \/ prompt_chat_request
                     \/ prompt_chat_read
                     \/ prompt_chat_send]_vars

\* the text the first n entries of the log leave as the current one: that of
\* the last entry when it is a write, the default otherwise
LastWritten(n) ==
    IF n = 0 \/ prompt_log[n].kind = "reset"
    THEN DEFAULT_SYSTEM_PROMPT
    ELSE prompt_log[n].prompt

\* C17: GET /system-prompt returns the text of the most recent
\* POST /system-prompt since the last reset, and the default text when
\* nothing was written since the start or since the last reset.
C17_LastWriteWins ==
    got # None => got.system_prompt = LastWritten(got.after)

\* C17 witness: GET answered with the second of two different writes.
C17_Witness ==
    /\ got # None
    /\ got.after >= 2
    /\ prompt_log[got.after].kind = "post"
    /\ prompt_log[got.after - 1].kind = "post"
    /\ prompt_log[got.after].prompt # prompt_log[got.after - 1].prompt
    /\ got.system_prompt = prompt_log[got.after].prompt


\* C18: a chat request without a system prompt of its own goes to the model
\* with a process-wide text that was current at some moment between its
\* arrival and the call: the newly written one when the write completed
\* before it arrived, the old or the new one when the write overlaps it.
C18_AsStated ==
    (asking.pc = "sent" /\ asking.own = None) => asking.system_prompt.text \in asking.current

----------------------------------------------------------------------------
(* An answer of the tool service in the hands of mcp_client.call_mcp_tool   *)
(* and of FileHandler._extract_file_references                              *)

\* the texts of content items, by their parts: "label: " when there is a
\* label, then a path written as lead, directories, stem and extension
AnswerTexts ==
    { [label |-> "", lead |-> "", rest |-> "", stem |-> "{\"status\": \"success\"}", ext |-> ""],
      [label |-> "", lead |-> "", rest |-> "", stem |-> "123", ext |-> ""],
      [label |-> "", lead |-> "", rest |-> "", stem |-> "hello", ext |-> ""],
      [label |-> "saved to", lead |-> "", rest |-> "/tmp/", stem |-> "a", ext |-> ".png"],
      [label |-> "file", lead |-> "", rest |-> "", stem |-> "a", ext |-> ".png"],
      [label |-> "diagram", lead |-> ".", rest |-> "/generated-diagrams/", stem |-> "x", ext |-> ".png"],
      [label |-> "output file", lead |-> "", rest |-> "", stem |-> "out", ext |-> ".exe"] }

\* content items: with type "text", with a text but no type, without a text
AnswerItems ==
    { [type |-> "text", text |-> t] : t \in AnswerTexts }
        \cup { [text |-> t] : t \in AnswerTexts }
        \cup { [type |-> "image"] }

\* the text as the string that travels
Text(t) ==
    (IF t.label = "" THEN "" ELSE t.label \o ": ") \o t.lead \o t.rest \o t.stem \o t.ext

\* json.loads of the texts above: a dict, another JSON value, or
\* JSONDecodeError
json_loads(text) ==
    CASE text = "{\"status\": \"success\"}" -> [dict |-> [k \in {"status"} |-> "success"]]
      [] text = "123" -> [value |-> 123]
      [] OTHER -> [error |-> "JSONDecodeError"]

\* the loop of call_mcp_tool over the content items: result_data, or None
\* when result_data.update raises on a JSON value that is no dict. An item
\* of type "text" assigns raw_text, an item with a text and no such type
\* appends to it.
scan_content(content) ==
    LET step(data, item) ==
            IF "text" \notin DOMAIN item \/ data = None THEN data
            ELSE LET parsed == json_loads(Text(item.text))
                     typed == "type" \in DOMAIN item /\ item.type = "text"
                 IN  IF "dict" \in DOMAIN parsed
                     THEN [k \in DOMAIN data \cup DOMAIN parsed.dict |->
                              IF k \in DOMAIN parsed.dict THEN parsed.dict[k] ELSE data[k]]
                     ELSE IF "value" \in DOMAIN parsed THEN None
                     ELSE [k \in DOMAIN data \cup {"raw_text"} |->
                              IF k # "raw_text" THEN data[k]
                              ELSE IF ~typed /\ "raw_text" \in DOMAIN data
                              THEN data.raw_text \o "\n" \o Text(item.text)
                              ELSE Text(item.text)]
        result_data[i \in 0..Len(content)] ==
            IF i = 0 THEN [k \in {} |-> ""] ELSE step(result_data[i - 1], content[i])
    IN  result_data[Len(content)]

\* FileHandler._find_file_paths_in_text: every match of every pattern, in
\* the order of the patterns, that has a supported extension. Pattern 2 is
\* searched anywhere, so "output file:" holds its "file:".
find_file_paths_in_text(t) ==
    LET path == t.lead \o t.rest \o t.stem \o t.ext
        matches ==
            (IF t.label \in {"saved to", "generated at", "created at", "output file", "file path"}
             THEN <<[path |-> path, pattern |-> 1]>> ELSE <<>>)
            \o (IF t.label \in {"file", "diagram", "image", "document", "output file"} /\ t.ext # ""
                THEN <<[path |-> path, pattern |-> 2]>> ELSE <<>>)
            \o (IF t.rest # "" /\ t.ext # ""
                THEN <<[path |-> t.rest \o t.stem \o t.ext, pattern |-> 3]>> ELSE <<>>)
            \o (IF t.lead = "." /\ t.rest # "" /\ t.ext # ""
                THEN <<[path |-> path, pattern |-> 4]>> ELSE <<>>)
            \o (IF t.rest = "/generated-diagrams/"
                THEN <<[path |-> "generated-diagrams/" \o t.stem \o t.ext, pattern |-> 5]>>
                ELSE <<>>)
    IN  IF t.ext \in {".png", ".jpg", ".jpeg", ".gif", ".svg", ".pdf", ".docx", ".doc",
                      ".xlsx", ".xls", ".csv", ".txt", ".md", ".json", ".xml"}
        THEN [i \in 1..Len(matches) |->
                [path |-> matches[i].path, extension |-> t.ext,
                 detected_pattern |-> matches[i].pattern, basename |-> t.stem \o t.ext]]
        ELSE <<>>

AnswerInit ==
    /\ ChatAtRest
    /\ AuxIdle("answer")
    /\ now = 0
    /\ requests = [c \in Clients |-> <<>>]
    /\ tool_answer \in [status_code : {200, 201, 500},
                        content : UNION {[1..n -> AnswerItems] : n \in 0..MaxItems}]
    /\ called = None
    /\ files_found = None

\* mcp_client.call_mcp_tool once the answer is in
mcp_client_call_mcp_tool ==
    /\ called = None
    /\ called' = IF tool_answer.status_code # 200
                 THEN [raised |-> "MCP error"]
                 ELSE LET result_data == scan_content(tool_answer.content)
                      IN  IF result_data = None THEN [raised |-> "TypeError"]
                          ELSE [result |-> result_data]
    /\ UNCHANGED <<chatVars, now, requests, tool_answer, files_found>>
    /\ Frame("answer")

\* FileHandler._extract_file_references over the content of the answer
extract_file_references ==
    /\ files_found = None
    /\ LET content == tool_answer.content
           found[i \in 0..Len(content)] ==
               IF i = 0 THEN <<>>
               ELSE IF "type" \in DOMAIN content[i] /\ content[i].type = "text"
               THEN found[i - 1] \o find_file_paths_in_text(content[i].text)
               ELSE found[i - 1]
       IN  files_found' = [list |-> found[Len(content)]]
    /\ UNCHANGED <<chatVars, now, requests, tool_answer, called>>
    /\ Frame("answer")

AnswerSpec ==
    AnswerInit /\ [][mcp_client_call_mcp_tool \/ extract_file_references]_vars

\* the content items whose text does not parse as JSON
FreeTextItems ==
    SelectSeq(tool_answer.content,
              LAMBDA item : /\ "text" \in DOMAIN item
                            /\ "error" \in DOMAIN json_loads(Text(item.text)))

\* the texts of the first n of them, joined by newlines
JoinedFreeText(n) ==
    LET joined[i \in 1..n] ==
            IF i = 1 THEN Text(FreeTextItems[1].text)
            ELSE joined[i - 1] \o "\n" \o Text(FreeTextItems[i].text)
    IN  joined[n]

\* C19: when the tool service answered 2xx, call_mcp_tool returns a result
\* that holds every field of every JSON item and, under raw_text, the texts
\* of all the other items joined by newlines in their order.
C19_AsStated ==
    (called # None /\ tool_answer.status_code \in 200..299) =>
        /\ "result" \in DOMAIN called
        /\ \A i \in 1..Len(tool_answer.content) :
              LET item == tool_answer.content[i]
              IN  ("text" \in DOMAIN item /\ "dict" \in DOMAIN json_loads(Text(item.text))) =>
                      DOMAIN json_loads(Text(item.text)).dict \subseteq DOMAIN called.result
        /\ FreeTextItems # <<>> =>
              /\ "raw_text" \in DOMAIN called.result
              /\ called.result.raw_text = JoinedFreeText(Len(FreeTextItems))

\* C20: the list of file candidates found in an answer holds no two entries
\* with the same filename.
C20_AsStated ==
    files_found # None =>
        \A i, j \in 1..Len(files_found.list) :
            i # j => files_found.list[i].basename # files_found.list[j].basename

----------------------------------------------------------------------------
(* CircuitBreaker of improvements.py, wrapped around an awaited function    *)
(* that several callers may be awaiting at a time                            *)

\* Calls of CircuitBreaker.call in one behaviour.
MaxCalls == 8
\* Calls that await the wrapped function at the same time.
MaxInFlight == 2
\* Seconds by which the clock advances between two steps of the breaker.
BreakerStep == 30
\* Clock advances in a behaviour of the breaker.
BreakerTicks == 3

failure_threshold == 5
recovery_timeout == 60

\* the check before the call that lets a call through as soon as the clock
\* has moved on from the last failure
before_call_early(cb, t) ==
    IF cb.state = "OPEN"
    THEN IF t - cb.last_failure_time > 0
         THEN [cb EXCEPT !.state = "HALF_OPEN"]
         ELSE None
    ELSE cb

\* CircuitBreaker.call before the wrapped function: the breaker afterwards,
\* None when it raises "Circuit breaker is OPEN"
before_call(cb, t) ==
    IF cb.state = "OPEN"
    THEN IF t - cb.last_failure_time > recovery_timeout
         THEN [cb EXCEPT !.state = "HALF_OPEN"]
         ELSE None
    ELSE cb

\* the breaker of the textbook: every success clears failure_count
after_call_clearing(cb, ok, t) ==
    IF ok
    THEN [cb EXCEPT !.failure_count = 0,
                    !.state = IF @ = "HALF_OPEN" THEN "CLOSED" ELSE @]
    ELSE [cb EXCEPT !.failure_count = @ + 1,
                    !.last_failure_time = t,
                    !.state = IF cb.failure_count + 1 >= failure_threshold THEN "OPEN" ELSE @]

\* a breaker that closes again when a call fails while it is HALF_OPEN
after_call_forgiving(cb, ok, t) ==
    IF cb.state = "HALF_OPEN"
    THEN [cb EXCEPT !.state = "CLOSED", !.failure_count = 0]
    ELSE IF ok THEN cb
    ELSE [cb EXCEPT !.failure_count = @ + 1,
                    !.last_failure_time = t,
                    !.state = IF cb.failure_count + 1 >= failure_threshold THEN "OPEN" ELSE @]

\* CircuitBreaker.call after the wrapped function returned (ok) or raised
after_call(cb, ok, t) ==
    IF ok
    THEN IF cb.state = "HALF_OPEN"
         THEN [cb EXCEPT !.state = "CLOSED", !.failure_count = 0]
         ELSE cb
    ELSE [cb EXCEPT !.failure_count = @ + 1,
                    !.last_failure_time = t,
                    !.state = IF cb.failure_count + 1 >= failure_threshold THEN "OPEN" ELSE @]

BreakerInit ==
    /\ ChatAtRest
    /\ AuxIdle("breaker")
    /\ now = 0
    /\ requests = [c \in Clients |-> <<>>]
    /\ breaker = [state |-> "CLOSED", failure_count |-> 0, last_failure_time |-> -1]
    /\ in_flight = {}
    /\ cb_calls = 0
    /\ cb_last = None
    /\ cb_log = <<>>
    /\ func_calls = 0

\* a caller enters CircuitBreaker.call: it is refused, or the wrapped
\* function is invoked and awaited
cb_call ==
    /\ cb_calls < MaxCalls
    /\ Cardinality(in_flight) < MaxInFlight
    /\ cb_calls' = cb_calls + 1
    /\ LET cb == before_call(breaker, now)
       IN  IF cb = None
           THEN /\ cb_last' = [id |-> cb_calls + 1, event |-> "Circuit breaker is OPEN",
                               trial |-> FALSE]
                /\ UNCHANGED <<breaker, in_flight, func_calls>>
           ELSE /\ breaker' = cb
                /\ in_flight' = in_flight \cup
                                  {[id |-> cb_calls + 1, trial |-> cb.state = "HALF_OPEN"]}
                /\ func_calls' = func_calls + 1
                /\ cb_last' = [id |-> cb_calls + 1, event |-> "invoked",
                               trial |-> cb.state = "HALF_OPEN"]
    /\ UNCHANGED <<chatVars, now, requests, cb_log>>
    /\ Frame("breaker")

\* the wrapped function of one caller returns or raises
cb_await ==
    /\ \E call \in in_flight, ok \in BOOLEAN :
          /\ breaker' = after_call(breaker, ok, now)
          /\ in_flight' = in_flight \ {call}
          /\ cb_last' = [id |-> call.id, event |-> IF ok THEN "returned" ELSE "raised",
                         trial |-> call.trial]
          /\ cb_log' = IF breaker.state = "HALF_OPEN" /\ breaker'.state = "CLOSED"
                       THEN <<>>
                       ELSE Append(cb_log, ok)
    /\ UNCHANGED <<chatVars, now, requests, cb_calls, func_calls>>
    /\ Frame("breaker")

\* time.time() has advanced
BreakerTick ==
    /\ now < BreakerTicks * BreakerStep
    /\ now' = now + BreakerStep
    /\ UNCHANGED <<chatVars, requests, breakerVars>>
    /\ Frame("breaker")

BreakerSpec ==
    BreakerInit /\ [][cb_call \/ cb_await \/ BreakerTick]_vars

\* C26: a call made while the breaker is OPEN and less than recovery_timeout
\* has elapsed since the last failure raises "Circuit breaker is OPEN", does
\* not invoke the wrapped function and leaves state, failure_count and
\* last_failure_time as they are.
C26_OpenRefuses ==
    [][(/\ cb_calls' = cb_calls + 1
        /\ breaker.state = "OPEN"
        /\ now - breaker.last_failure_time < recovery_timeout) =>
           /\ cb_last'.event = "Circuit breaker is OPEN"
           /\ func_calls' = func_calls
           /\ in_flight' = in_flight
           /\ breaker' = breaker]_vars

\* C26 witness: a call was refused by the OPEN breaker.
C26_Witness ==
    /\ cb_last # None
    /\ cb_last.event = "Circuit breaker is OPEN"
    /\ breaker.state = "OPEN"
    /\ now - breaker.last_failure_time < recovery_timeout
    /\ func_calls = cb_calls - 1

\* the step changes the state of the breaker from one state to another
Moves(from, to) == breaker.state = from /\ breaker'.state = to

\* C27 as stated: the breaker leaves HALF_OPEN only through the trial call,
\* the call that was let through when the breaker became HALF_OPEN.
C27_AsStated ==
    [][breaker'.state # breaker.state =>
          \/ /\ Moves("CLOSED", "OPEN")
             /\ cb_last'.event = "raised"
             /\ breaker'.failure_count = failure_threshold
          \/ /\ Moves("OPEN", "HALF_OPEN")
             /\ cb_last'.event = "invoked"
             /\ now - breaker.last_failure_time > recovery_timeout
          \/ /\ Moves("HALF_OPEN", "CLOSED")
             /\ cb_last'.event = "returned"
             /\ cb_last'.trial
             /\ breaker'.failure_count = 0
          \/ /\ Moves("HALF_OPEN", "OPEN")
             /\ cb_last'.event = "raised"
             /\ cb_last'.trial]_vars

\* C27: CLOSED to OPEN only when a failure brings failure_count to
\* failure_threshold, OPEN to HALF_OPEN only by a call made after more than
\* recovery_timeout since the last failure, HALF_OPEN to CLOSED with
\* failure_count 0 when a call returns and to OPEN when a call raises, be it
\* the trial call or one that was begun earlier; no other change of state,
\* and a call that ends while the breaker is HALF_OPEN always ends that state.
C27_Transitions ==
    [][/\ breaker'.state # breaker.state =>
            \/ /\ Moves("CLOSED", "OPEN")
               /\ cb_last'.event = "raised"
               /\ breaker'.failure_count = failure_threshold
            \/ /\ Moves("OPEN", "HALF_OPEN")
               /\ cb_last'.event = "invoked"
               /\ now - breaker.last_failure_time > recovery_timeout
            \/ /\ Moves("HALF_OPEN", "CLOSED")
               /\ cb_last'.event = "returned"
               /\ breaker'.failure_count = 0
            \/ /\ Moves("HALF_OPEN", "OPEN")
               /\ cb_last'.event = "raised"
       /\ (breaker.state = "HALF_OPEN" /\ cb_calls' = cb_calls /\ in_flight' # in_flight) =>
            breaker'.state = IF cb_last'.event = "returned" THEN "CLOSED" ELSE "OPEN"]_vars

\* C27 witness: the breaker has closed again after a trial call that
\* returned, having been OPEN and HALF_OPEN before.
C27_Witness ==
    /\ cb_last # None
    /\ cb_last.event = "returned"
    /\ cb_last.trial
    /\ breaker.state = "CLOSED"
    /\ breaker.failure_count = 0
    /\ breaker.last_failure_time >= 0

\* failures of the wrapped function since the breaker was constructed or
\* last closed again
FailuresLogged == Cardinality({i \in 1..Len(cb_log) : ~cb_log[i]})

\* C30: while CLOSED failure_count is the number of all failures since the
\* last recovery, whatever successes lay between them, and stays below
\* failure_threshold; OPEN implies failure_count >= failure_threshold; a call
\* that returns while the breaker is CLOSED leaves failure_count as it is, no
\* step lowers it while CLOSED, and the breaker opens exactly on the failure
\* that brings the failures since the last recovery to failure_threshold.
C30_FailuresAccumulate ==
    /\ [](/\ breaker.state = "CLOSED" =>
              /\ breaker.failure_count = FailuresLogged
              /\ breaker.failure_count < failure_threshold
          /\ breaker.state = "OPEN" =>
              /\ breaker.failure_count >= failure_threshold
              /\ FailuresLogged >= failure_threshold)
    /\ [][breaker.state = "CLOSED" =>
             /\ (cb_last' # cb_last /\ cb_last'.event = "returned") =>
                   breaker'.failure_count = breaker.failure_count
             /\ breaker'.failure_count >= breaker.failure_count
             /\ breaker'.state = "OPEN" <=>
                   (/\ cb_last' # cb_last
                    /\ cb_last'.event = "raised"
                    /\ FailuresLogged + 1 = failure_threshold)]_vars

\* C30 witness: the breaker is OPEN after failure_threshold failures with a
\* success between two of them.
C30_Witness ==
    /\ breaker.state = "OPEN"
    /\ breaker.failure_count = failure_threshold
    /\ \E i, j, k \in 1..Len(cb_log) :
          i < j /\ j < k /\ ~cb_log[i] /\ cb_log[j] /\ ~cb_log[k]

----------------------------------------------------------------------------
(* SecurityManager.validate_request as a whole *)

----------------------------------------------------------------------------
(* The values of a chat request on their way through main_q_style.py:      *)
(* security validation, intent analysis, the model call                     *)

\* InputValidator.sanitize_string. Of the characters the first re.sub
\* removes the messages use the form feed.
sanitize_string(text) ==
    LET kept == SelectSeq(text, LAMBDA c : c # "\f")
        RECURSIVE escaped(_)
        escaped(t) ==
            IF t = <<>> THEN <<>>
            ELSE (IF Head(t) = "<" THEN <<"&","l","t",";">>
                  ELSE IF Head(t) = ">" THEN <<"&","g","t",";">>
                  ELSE <<Head(t)>>) \o escaped(Tail(t))
        e == escaped(kept)
        inner == {i \in 1..Len(e) : e[i] \notin WhiteSpace}
    IN  IF inner = {} THEN <<>>
        ELSE SubSeq(e, CHOOSE i \in inner : \A j \in inner : i <= j,
                       CHOOSE i \in inner : \A j \in inner : i >= j)

\* 'result["sanitized_data"] = {...}' of validate_input; temperature is
\* counted in tenths
sanitized_data(request_data) ==
    LET max(a, b) == IF a >= b THEN a ELSE b
        min(a, b) == IF a <= b THEN a ELSE b
    IN  [message |-> sanitize_string(request_data.message),
         temperature |-> max(0, min(10, request_data.temperature)),
         max_tokens |-> max(1, min(4000, request_data.max_tokens))]

\* a POST /chat has arrived at main_q_style.py; the rate limiter has room
SanitizeInit ==
    /\ ChatAtRest
    /\ AuxIdle("sanitize")
    /\ now = 0
    /\ requests = [c \in Clients |-> <<>>]
    /\ san_pc = "received"
    /\ san_request \in
          [message : { <<"a","w","s">>,
                       <<" ","a","w","s"," ">>,
                       <<"a","<","b",">">>,
                       <<"a","\f","w","s">>,
                       <<"j","a","v","a","s","c","r","i","p","t",":">>,
                       <<>> },
           temperature : {-5, 0, 7, 10, 15},
           max_tokens : {-1, 0, 1, 1500, 4000, 4001}]
    /\ san_security = None
    /\ analyzed = None
    /\ sent = None

\* security_manager.validate_request(request.dict(), client_ip) and the
\* HTTPException on its failure: the result holds valid, errors and warnings;
\* the sanitized_data of validate_input stay in validation_result
san_validate_request ==
    /\ san_pc = "received"
    /\ LET validation_result == validate_input(san_request) @@
                                  [sanitized_data |-> sanitized_data(san_request)]
       IN  /\ san_security' = [valid |-> validation_result.valid,
                               errors |-> validation_result.errors,
                               warnings |-> <<>>]
           /\ san_pc' = IF validation_result.valid THEN "validated" ELSE "rejected"
    /\ UNCHANGED <<chatVars, now, requests, san_request, analyzed, sent>>
    /\ Frame("sanitize")

\* 'sanitized_data = security_result.get("sanitized_data", request.dict())',
\* sanitized_request = ChatRequest(**sanitized_data) and
\* analyze_intent(sanitized_request.message)
san_analyze_intent ==
    /\ san_pc = "validated"
    /\ LET sanitized_request == IF "sanitized_data" \in DOMAIN san_security
                                THEN san_security.sanitized_data
                                ELSE san_request
       IN  analyzed' = sanitized_request.message
    /\ san_pc' = "analyzed"
    /\ UNCHANGED <<chatVars, now, requests, san_request, san_security, sent>>
    /\ Frame("sanitize")

\* call_bedrock_with_system_prompt(request.message, request.model,
\* request.temperature, request.max_tokens, system_prompt, step4)
san_call_bedrock ==
    /\ san_pc = "analyzed"
    /\ sent' = [message |-> san_request.message,
                temperature |-> san_request.temperature,
                max_tokens |-> san_request.max_tokens]
    /\ san_pc' = "sent"
    /\ UNCHANGED <<chatVars, now, requests, san_request, san_security, analyzed>>
    /\ Frame("sanitize")

SanitizeSpec ==
    SanitizeInit /\ [][san_validate_request \/ san_analyze_intent \/ san_call_bedrock]_vars

\* C25 as stated: a request that passed security validation is analysed and
\* sent to the model with the sanitized values: the message without control
\* characters, with '<' and '>' escaped and stripped, temperature within
\* [0, 1] and max_tokens within [1, 4000].
C25_AsStated ==
    /\ san_pc \in {"analyzed", "sent"} =>
          analyzed = sanitized_data(san_request).message
    /\ san_pc = "sent" => sent = sanitized_data(san_request)

----------------------------------------------------------------------------
(* bedrock-mcp-backend/app.py: POST /bedrock/tool-use *)

\* bytes.fromhex(text) for a text without whitespace: the bytes, or the
\* ValueError it raises on an odd length or a character that is no hex digit
fromhex(text) ==
    LET digits == <<"0","1","2","3","4","5","6","7","8","9","a","b","c","d","e","f">>
        value(c) == (CHOOSE i \in 1..16 : digits[i] = LowerChar(c)) - 1
        is_hex(c) == \E i \in 1..16 : digits[i] = LowerChar(c)
    IN  IF Len(text) % 2 = 0 /\ \A i \in 1..Len(text) : is_hex(text[i])
        THEN [raises |-> "", bytes |-> [raw |-> [k \in 1..(Len(text) \div 2) |->
                                           16 * value(text[2 * k - 1]) + value(text[2 * k])]]]
        ELSE [raises |-> "ValueError"]

\* base64.b64decode(text) for a text whose padding, if any, is at its end:
\* characters outside the alphabet are discarded; binascii.Error when the
\* characters left do not fill their last group of four
b64decode(text) ==
    LET alphabet == UpperCase \o LowerCase \o
                      <<"0","1","2","3","4","5","6","7","8","9","+","/">>
        in_alphabet(c) == \E i \in 1..64 : alphabet[i] = c
        data == SelectSeq(text, in_alphabet)
        pads == Len(SelectSeq(text, LAMBDA c : c = "="))
        v == [i \in 1..Len(data) |-> (CHOOSE j \in 1..64 : alphabet[j] = data[i]) - 1]
        r == Len(data) % 4
        \* the k-th byte (from 0) of the bit string the sextets make
        byte(k) == LET i == (8 * k) \div 6
                       off == (8 * k) % 6
                   IN  ((v[i + 1] * 64 + v[i + 2]) \div (2 ^ (4 - off))) % 256
    IN  IF r = 0 \/ (r = 2 /\ pads >= 2) \/ (r = 3 /\ pads >= 1)
        THEN [raises |-> "", bytes |-> [raw |-> [k \in 1..((Len(data) * 6) \div 8) |->
                                                    byte(k - 1)]]]
        ELSE [raises |-> "binascii.Error"]

\* a POST /bedrock/tool-use has arrived: the tool name of its body (None when
\* missing), and what the tool service would answer: it fails (mcp_ok
\* false), or result_data holds one of the keys the handler decodes, or
\* none of them ("message"), and perhaps a filename
ToolUseInit ==
    /\ ChatAtRest
    /\ AuxIdle("tool_use")
    /\ now = 0
    /\ requests = [c \in Clients |-> <<>>]
    /\ \E name \in {"", "generate_diagram"}, mcp_ok \in BOOLEAN,
          key \in {"diagram_data", "file_content", "raw_text", "data", "message"},
          value \in { <<"8","9","5","0","4","e","4","7">>,
                      <<"a","G","k","=">>,
                      <<"h","e","l","l","o">>,
                      <<"a","b","c">>,
                      <<"a","<","b",">">>,
                      <<>> },
          filename \in { [stem |-> "", ext |-> ""],
                         [stem |-> "diagram", ext |-> ".png"],
                         [stem |-> "notes", ext |-> ".md"],
                         [stem |-> "out", ext |-> ""] } :
          tool_use = [pc |-> "received", name |-> name, mcp_ok |-> mcp_ok,
                      key |-> key, value |-> value, filename |-> filename,
                      mcp_calls |-> 0, upload_calls |-> <<>>, file_processed |-> FALSE,
                      reply |-> NoReply]

\* handle_tool_use, which awaits nothing but the body of the request.
\* upload_to_s3 is a coroutine function called without await: the call is
\* made, nothing is stored, and file_url is the coroutine object.
handle_tool_use ==
    /\ tool_use # None
    /\ tool_use.pc = "received"
    /\ LET t == tool_use
           \* "except Exception as e": the error toolResult, returned with 200
           caught(error_msg, calls) ==
               [t EXCEPT !.pc = "responded", !.mcp_calls = calls,
                         !.reply = [status |-> 200, result |-> "error", text |-> error_msg]]
           filename == IF t.filename.stem # "" THEN t.filename
                       ELSE [stem |-> t.name \o "_request_id", ext |-> ".txt"]
           as_text == IF filename.ext \in {".txt", ".md", ".json", ".yaml", ".yml"}
                      THEN filename
                      ELSE [stem |-> filename.stem \o filename.ext, ext |-> ".txt"]
           decoded == CASE t.key \in {"diagram_data", "data"} -> fromhex(t.value)
                        [] t.key = "file_content" -> b64decode(t.value)
                        [] OTHER -> [raises |-> "", bytes |-> [utf8 |-> t.value]]
           \* the arguments of upload_to_s3, <<>> when it is not reached: a
           \* decoder that raises leaves the inner try block, the ValueError of
           \* bytes.fromhex passing by "except binascii.Error"
           uploaded ==
               CASE t.key = "message" -> <<>>
                 [] decoded.raises # "" -> <<>>
                 [] t.key = "raw_text" ->
                       <<[filename |-> as_text, file_bytes |-> decoded.bytes]>>
                 [] OTHER -> <<[filename |-> filename, file_bytes |-> decoded.bytes]>>
       IN  tool_use' =
             IF t.name = ""
             THEN caught("400: Missing tool name", 0)
             ELSE IF ~t.mcp_ok
             THEN caught("Connection error calling MCP tool", 1)
             ELSE [t EXCEPT !.pc = "responded",
                            !.mcp_calls = 1,
                            !.upload_calls = uploaded,
                            !.file_processed = uploaded # <<>>,
                            !.reply = [status |-> 200,
                                       result |-> IF uploaded # <<>> THEN "file"
                                                  ELSE "informational",
                                       text |-> IF uploaded # <<>>
                                                THEN "<coroutine object upload_to_s3>"
                                                ELSE "result_data"]]
    /\ UNCHANGED <<chatVars, now, requests>>
    /\ Frame("tool_use")

ToolUseSpec == ToolUseInit /\ [][handle_tool_use]_vars

\* the handler was to decode inline content and the decoder raised
DecodeFailed ==
    /\ tool_use.pc = "responded"
    /\ tool_use.name # ""
    /\ tool_use.mcp_ok
    /\ \/ tool_use.key \in {"diagram_data", "data"} /\ fromhex(tool_use.value).raises # ""
       \/ tool_use.key = "file_content" /\ b64decode(tool_use.value).raises # ""

\* C23 as stated: when decoding inline content fails, the content is handed
\* to the upload as UTF-8 text under a filename that ends in a text
\* extension, '.txt' being appended when it has none.
C23_AsStated ==
    DecodeFailed =>
        /\ tool_use.file_processed
        /\ Len(tool_use.upload_calls) = 1
        /\ tool_use.upload_calls[1].file_bytes = [utf8 |-> tool_use.value]
        /\ tool_use.upload_calls[1].filename.ext
              \in {".txt", ".md", ".json", ".yaml", ".yml"}

\* C24 as stated: a request without a tool name is answered with HTTP 400
\* "Missing tool name" and the tool service is not called for it.
C24_AsStated ==
    (tool_use.pc = "responded" /\ tool_use.name = "") =>
        /\ tool_use.reply.status = 400
        /\ tool_use.mcp_calls = 0

----------------------------------------------------------------------------
(* bedrock-mcp-backend/file_handler.py: the content of the candidates *)

\* Candidates in one tool response whose content is resolved.
MaxCandidates == 2

\* "methods" of _get_file_content, in the order of the list
methods == <<"_read_local_file", "_download_from_url", "_read_from_mcp_server">>

\* a loop body in which an exception of a method leaves _get_file_content
loop_body_raising(outcome) ==
    CASE outcome = "content" -> "return"
      [] outcome = "nothing" -> "continue"
      [] outcome = "raises" -> "raise"

\* the body of "for method in methods": what follows the awaited method
\* that returned bytes ("content"), returned None or b"" ("nothing"), or raised
loop_body(outcome) ==
    CASE outcome = "content" -> "return"
      [] outcome = "nothing" -> "continue"
      [] outcome = "raises" -> "continue"

\* _extract_file_references has returned the candidates. What a method would
\* do for a candidate is the environment's: _read_from_mcp_server catches
\* its exceptions itself, the other two can raise. upload_ok: what
\* upload_to_s3 will return for the candidate is a URL.
ResolveInit ==
    /\ ChatAtRest
    /\ AuxIdle("resolve")
    /\ now = 0
    /\ requests = [c \in Clients |-> <<>>]
    /\ \E n \in 1..MaxCandidates :
       \E files \in [1..n -> [_read_local_file : {"content", "nothing", "raises"},
                              _download_from_url : {"content", "nothing", "raises"},
                              _read_from_mcp_server : {"content", "nothing"},
                              upload_ok : BOOLEAN]] :
          resolving = [pc |-> "processing", files |-> files, i |-> 1, m |-> 1,
                       tried |-> <<>>, file_content |-> <<>>, processed_files |-> <<>>]

\* one turn of the loop of _get_file_content for the candidate at hand,
\* and, when the loop is left, the rest of _process_single_file
get_file_content ==
    /\ resolving # None
    /\ resolving.pc = "processing"
    /\ LET r == resolving
           method == methods[r.m]
           todo == loop_body(r.files[r.i][method])
           tried == Append(r.tried, [i |-> r.i, method |-> method])
           \* _process_single_file returns for this candidate
           done(content) ==
               [r EXCEPT !.tried = tried,
                         !.file_content = Append(@, content),
                         !.processed_files =
                             IF content # "" /\ r.files[r.i].upload_ok
                             THEN Append(@, [i |-> r.i, content |-> content])
                             ELSE @,
                         !.m = 1,
                         !.i = @ + 1,
                         !.pc = IF r.i = Len(r.files) THEN "returned" ELSE "processing"]
       IN  resolving' =
             CASE todo = "return" -> done(method)
               [] todo = "raise" -> done("")
               [] todo = "continue" /\ r.m = Len(methods) -> done("")
               [] OTHER -> [r EXCEPT !.tried = tried, !.m = @ + 1]
    /\ UNCHANGED <<chatVars, now, requests>>
    /\ Frame("resolve")

ResolveSpec == ResolveInit /\ [][get_file_content]_vars

\* the methods tried for candidate i, in the order they were tried
TriedFor(i) ==
    LET mine == SelectSeq(resolving.tried, LAMBDA t : t.i = i)
    IN  [k \in 1..Len(mine) |-> mine[k].method]

\* the methods that would return content for candidate i
Yielding(i) == {k \in 1..Len(methods) : resolving.files[i][methods[k]] = "content"}

\* C21: for every candidate dealt with, the methods were tried in the order
\* local read, URL fetch, companion endpoint, up to and including the first
\* that returns content, whose content is the candidate's; a method that
\* raises or returns nothing is followed by the next; when none returns
\* content all three were tried and the candidate is dropped, and the
\* candidates after it are dealt with all the same.
C21_FirstContentWins ==
    resolving # None =>
        /\ Len(resolving.file_content) = IF resolving.pc = "returned"
                                         THEN Len(resolving.files)
                                         ELSE resolving.i - 1
        /\ \A i \in 1..Len(resolving.file_content) :
              LET first == IF Yielding(i) = {} THEN Len(methods)
                           ELSE CHOOSE k \in Yielding(i) : \A j \in Yielding(i) : k <= j
              IN  /\ TriedFor(i) = SubSeq(methods, 1, first)
                  /\ resolving.file_content[i] =
                        IF Yielding(i) = {} THEN "" ELSE methods[first]
                  /\ (\E p \in 1..Len(resolving.processed_files) :
                          resolving.processed_files[p] =
                              [i |-> i, content |-> resolving.file_content[i]])
                        <=> (Yielding(i) # {} /\ resolving.files[i].upload_ok)

\* C21 witness: the first candidate was dropped after all three methods
\* failed, the local read by raising; the second got its content from the
\* URL fetch after the local read raised, and the companion endpoint, which
\* had content too, was not asked.
C21_Witness ==
    /\ resolving # None
    /\ resolving.pc = "returned"
    /\ Len(resolving.files) = 2
    /\ resolving.files[1]._read_local_file = "raises"
    /\ resolving.file_content = <<"", "_download_from_url">>
    /\ resolving.files[2]._read_local_file = "raises"
    /\ resolving.files[2]._read_from_mcp_server = "content"
    /\ Len(resolving.tried) = 5
    /\ resolving.processed_files = <<[i |-> 2, content |-> "_download_from_url"]>>

----------------------------------------------------------------------------
(* bedrock-mcp-backend/file_processor.py: the type of a text *)

\* FileProcessor.FILE_PATTERNS for a text: the types in the order of the
\* dict, each with whether one of its patterns is found by
\* re.search(pattern, content, re.DOTALL | re.IGNORECASE)
FILE_PATTERNS(content) ==
    LET s == Lower(content)
        base64_chars == {LowerCase[i] : i \in 1..26} \cup
                        {"0","1","2","3","4","5","6","7","8","9","+","/","="}
        hex_chars == {"0","1","2","3","4","5","6","7","8","9","a","b","c","d","e","f"}
        \* lit followed by at least one character of the class
        lit_then(lit, class) ==
            \E i \in 1..Len(s) :
                /\ At(Lower(lit), s, i)
                /\ i + Len(lit) <= Len(s)
                /\ s[i + Len(lit)] \in class
        \* r'<svg[^>]*>.*?</svg>'
        svg_element ==
            \E i \in 1..Len(s), j \in 1..Len(s), k \in 1..Len(s) :
                /\ At(<<"<","s","v","g">>, s, i)
                /\ j >= i + 4
                /\ s[j] = ">"
                /\ k > j
                /\ At(<<"<","/","s","v","g",">">>, s, k)
        \* r'([^,\n]+,){2,}[^,\n]*\n'
        field(a, b) == \A x \in a..b : s[x] \notin {",", "\n"}
        csv_row ==
            \E c1 \in 2..Len(s), c2 \in 1..Len(s), n \in 1..Len(s) :
                /\ s[c1] = "," /\ s[c2] = "," /\ s[n] = "\n"
                /\ field(c1 - 1, c1 - 1)
                /\ c2 > c1 + 1 /\ field(c1 + 1, c2 - 1)
                /\ n > c2 /\ field(c2 + 1, n - 1)
        \* r'^\s*[\{\[].*[\}\]]\s*$'
        inner == {i \in 1..Len(s) : s[i] \notin WhiteSpace}
        json_text ==
            /\ Cardinality(inner) >= 2
            /\ s[CHOOSE i \in inner : \A j \in inner : i <= j] \in {"{", "["}
            /\ s[CHOOSE i \in inner : \A j \in inner : i >= j] \in {"}", "]"}
    IN  << [file_type |-> "png",
            matches |-> \/ lit_then(<<"d","a","t","a",":","i","m","a","g","e","/","p","n","g",
                                      ";","b","a","s","e","6","4",",">>, base64_chars)
                        \/ lit_then(<<"i","V","B","O","R","w","0","K","G","g","o">>, base64_chars)
                        \/ lit_then(<<"8","9","5","0","4","e","4","7">>, hex_chars)],
           [file_type |-> "svg",
            matches |-> \/ svg_element
                        \/ Contains(<<"d","a","t","a",":","i","m","a","g","e","/","s","v","g",
                                      "+","x","m","l">>, s)],
           [file_type |-> "csv",
            matches |-> \/ csv_row
                        \/ Contains(<<"d","a","t","a",":","t","e","x","t","/","c","s","v">>, s)],
           [file_type |-> "xlsx",
            matches |-> \/ Contains(<<"d","a","t","a",":","a","p","p","l","i","c","a","t","i","o","n",
                                      "/","v","n","d",".","o","p","e","n","x","m","l",
                                      "f","o","r","m","a","t","s">>, s)
                        \/ lit_then(<<"U","E","s","D","B","B","Q","A">>, base64_chars)],
           [file_type |-> "docx",
            matches |-> \/ Contains(<<"d","a","t","a",":","a","p","p","l","i","c","a","t","i","o","n",
                                      "/","v","n","d",".","o","p","e","n","x","m","l",
                                      "f","o","r","m","a","t","s","-","o","f","f","i","c","e",
                                      "d","o","c","u","m","e","n","t",".","w","o","r","d",
                                      "p","r","o","c","e","s","s","i","n","g","m","l">>, s)
                        \/ lit_then(<<"U","E","s","D","B","B","Q","A">>, base64_chars)],
           [file_type |-> "yaml",
            matches |-> \/ \E w \in WordChars :
                              LitWsLit(<<"a","p","i","v","e","r","s","i","o","n",":">>, 0, <<w>>, s)
                        \/ \E w \in WordChars : LitWsLit(<<"k","i","n","d",":">>, 0, <<w>>, s)
                        \/ Contains(<<"-","-","-","\n">>, s)],
           [file_type |-> "json", matches |-> json_text],
           [file_type |-> "txt", matches |-> TRUE] >>

\* a detection that goes through the types from the last to the first
detect_file_type_reversed(content) ==
    LET patterns == FILE_PATTERNS(content)
        found == {i \in 1..Len(patterns) :
                      patterns[i].file_type # "txt" /\ patterns[i].matches}
    IN  IF found = {} THEN "txt"
        ELSE patterns[CHOOSE i \in found : \A j \in found : i >= j].file_type

\* FileProcessor.detect_file_type: the first type of FILE_PATTERNS, 'txt'
\* skipped, of which a pattern is found; 'txt' when there is none
detect_file_type(content) ==
    LET patterns == FILE_PATTERNS(content)
        found == {i \in 1..Len(patterns) :
                      patterns[i].file_type # "txt" /\ patterns[i].matches}
    IN  IF found = {} THEN "txt"
        ELSE patterns[CHOOSE i \in found : \A j \in found : i <= j].file_type

\* a text made of two pieces, each of which may carry a signature
DetectInit ==
    /\ ChatAtRest
    /\ AuxIdle("detect")
    /\ now = 0
    /\ requests = [c \in Clients |-> <<>>]
    /\ \E first, second \in {
          <<>>,   \* ''
          <<"8","9","5","0","4","e","4","7","f","f">>,   \* '89504e47ff'
          <<"i","V","B","O","R","w","0","K","G","g","o","A">>,   \* 'iVBORw0KGgoA'
          <<"<","s","v","g"," ","a",">","x","<","/","s","v","g",">">>,   \* '<svg a>x</svg>'
          <<"a",",","b",",","c","\n">>,   \* 'a,b,c\n'
          <<"U","E","s","D","B","B","Q","A","x">>,   \* 'UEsDBBQAx'
          <<"K","I","N","D",":"," ","x">>,   \* 'KIND: x'
          <<"{","}">>,   \* '{}'
          <<"[","1","]">>,   \* '[1]'
          <<"h","e","l","l","o">>,   \* 'hello'
          <<"d","a","t","a",":","t","e","x","t","/","c","s","v">>,   \* 'data:text/csv'
          <<"-","-","-","\n">>   \* '---\n'
          } :
          detecting = [content |-> first \o second, file_type |-> ""]

\* file_type = self.detect_file_type(raw_text)
detect ==
    /\ detecting # None
    /\ detecting.file_type = ""
    /\ detecting' = [detecting EXCEPT !.file_type = detect_file_type(detecting.content)]
    /\ UNCHANGED <<chatVars, now, requests>>
    /\ Frame("detect")

DetectSpec == DetectInit /\ [][detect]_vars

\* the types of which a pattern is found in the text at hand
Matched ==
    LET patterns == FILE_PATTERNS(detecting.content)
    IN  {patterns[i].file_type : i \in {k \in 1..Len(patterns) : patterns[k].matches}}

\* C22: the type returned is the first of png, svg, csv, xlsx, docx, yaml,
\* json of which a signature is found in the text, and txt when none is
\* found; so a text with an image signature (png, svg) is given an image
\* type whatever structured-data signature it also carries.
C22_FirstMatchWins ==
    (detecting # None /\ detecting.file_type # "") =>
        LET order == <<"png", "svg", "csv", "xlsx", "docx", "yaml", "json">>
            t == detecting.file_type
            m == Matched
        IN  /\ t = "txt" <=> \A i \in 1..Len(order) : order[i] \notin m
            /\ t # "txt" =>
                  \E i \in 1..Len(order) :
                      /\ order[i] = t
                      /\ t \in m
                      /\ \A j \in 1..(i - 1) : order[j] \notin m
            /\ ("png" \in m \/ "svg" \in m) => t \in {"png", "svg"}

\* C22 witness: a text with an svg element and a csv row in it was
\* classified as svg.
C22_Witness ==
    /\ detecting # None
    /\ detecting.file_type = "svg"
    /\ "csv" \in Matched
    /\ "png" \notin Matched

=============================================================================
